---- MODULE Spec2Model ----
(***************************************************************************)
(* Model of analyzer/code_analysis.py (class CodeAnalyzer): the complexity *)
(* lattice, the tree-based time and space passes over a Python syntax      *)
(* tree, the text-based passes, and analyze_file / analyze_directory with  *)
(* the analyzer's instance fields self.issues and self.metrics.            *)
(*                                                                         *)
(* Class tokens are written in ASCII: "O(n^2)" is the source's 'O(n²)',    *)
(* "O(n^3)" is 'O(n³)' and "O(n^3+)" is 'O(n³+)'.                          *)
(***************************************************************************)
EXTENDS Integers, Sequences, FiniteSets, TLC

(***************************************************************************)
(* Generic helpers for Python values.                                      *)
(***************************************************************************)

\* index of the first occurrence of x in sequence s (list.index), 0-based
RECURSIVE IndexFrom(_, _, _)
IndexFrom(s, x, i) ==
    IF i > Len(s) THEN -1
    ELSE IF s[i] = x THEN i - 1
    ELSE IndexFrom(s, x, i + 1)

InSeq(x, s) == \E i \in 1..Len(s) : s[i] = x

\* A Python dict is a sequence of <<key, value>> pairs in insertion order.
DictHas(d, k) == \E i \in 1..Len(d) : d[i][1] = k

DictGet(d, k, default) ==
    IF DictHas(d, k)
    THEN d[CHOOSE i \in 1..Len(d) : d[i][1] = k][2]
    ELSE default

\* d[k] = v : an existing key keeps its position, a new key goes last
DictSet(d, k, v) ==
    IF DictHas(d, k)
    THEN [i \in 1..Len(d) |-> IF d[i][1] = k THEN <<k, v>> ELSE d[i]]
    ELSE Append(d, <<k, v>>)

DictValues(d) == [i \in 1..Len(d) |-> d[i][2]]

DictKeys(d) == [i \in 1..Len(d) |-> d[i][1]]

\* Python's max(seq, key=...) : the first element whose key is maximal
RECURSIVE FirstMaxFrom(_, _, _)
\* keys holds the key of every element; the result is the place of the maximum
FirstMaxFrom(keys, i, best) ==
    IF i > Len(keys) THEN best
    ELSE FirstMaxFrom(keys, i + 1, IF keys[i] > keys[best] THEN i ELSE best)

FirstMax(keys) == FirstMaxFrom(keys, 2, 1)

(***************************************************************************)
(* The complexity lattice.                                                 *)
(***************************************************************************)

\* the list 'order' of _combine_complexities and _upgrade_complexity
order == << "O(1)", "O(log n)", "O(n)", "O(n log n)",
            "O(n^2)", "O(n^3)", "O(n^3+)", "O(n!)" >>

Classes == { order[i] : i \in 1..Len(order) }

\* a faulty variant: the key function ranks O(n log n) with O(n)
OrderIndexFlat(c) ==
    IF c = "O(n log n)" THEN 2
    ELSE IF InSeq(c, order) THEN IndexFrom(order, c, 1) ELSE 0

\* order.index(c) if c in order else 0
OrderIndex(c) == IF InSeq(c, order) THEN IndexFrom(order, c, 1) ELSE 0

\* _upgrade_complexity: max([current, new], key=index-or-0)
upgrade_complexity(current, new) ==
    <<current, new>>[FirstMax(<<OrderIndex(current), OrderIndex(new)>>)]

\* _combine_complexities
combine_complexities(c1, c2) ==
    IF c1 = "O(1)" THEN c2
    ELSE IF c2 = "O(1)" THEN c1
    ELSE IF (c1 = "O(n)" /\ c2 = "O(log n)") \/ (c1 = "O(log n)" /\ c2 = "O(n)")
         THEN "O(n log n)"
    ELSE <<c1, c2>>[FirstMax(<<OrderIndex(c1), OrderIndex(c2)>>)]

\* _complexity_weight: weights.get(complexity, 0)
complexity_weight(complexity) ==
    CASE complexity = "O(1)"       -> 0
      [] complexity = "O(log n)"   -> 1
      [] complexity = "O(n)"       -> 2
      [] complexity = "O(n log n)" -> 3
      [] complexity = "O(n^2)"     -> 4
      [] complexity = "O(n^3)"     -> 5
      [] complexity = "O(n^3+)"    -> 6
      [] complexity = "O(n!)"      -> 7
      [] OTHER                     -> 0

(***************************************************************************)
(* Python syntax trees (module ast).  A node is a record whose 'type' is   *)
(* the name of its ast class and whose other fields are the fields of that *)
(* class that the analyzer reads or walks.  Operator tokens (ast.Add, ...) *)
(* and the expression context of a Name are kept as strings: as nodes they *)
(* are leaves that no isinstance test of the analyzer matches.  An         *)
(* optional field that is None holds NoneNode.                             *)
(***************************************************************************)
NoneNode == [type |-> "None"]

Name(id, ctx) == [type |-> "Name", id |-> id, ctx |-> ctx]

Constant(value) == [type |-> "Constant", value |-> value]

Attribute(value, attr) == [type |-> "Attribute", value |-> value, attr |-> attr]

Call(func, args) == [type |-> "Call", func |-> func, args |-> args]

BinOp(left, op, right) == [type |-> "BinOp", left |-> left, op |-> op, right |-> right]

Compare(left, ops, comparators) ==
    [type |-> "Compare", left |-> left, ops |-> ops, comparators |-> comparators]

Slice(lower, upper) == [type |-> "Slice", lower |-> lower, upper |-> upper]

Subscript(value, slice) == [type |-> "Subscript", value |-> value, slice |-> slice]

ListNode(elts) == [type |-> "List", elts |-> elts]

SetNode(elts) == [type |-> "Set", elts |-> elts]

DictNode(keys, values) == [type |-> "Dict", keys |-> keys, values |-> values]

comprehension(target, iter) == [type |-> "comprehension", target |-> target, iter |-> iter]

ListComp(elt, generators) == [type |-> "ListComp", elt |-> elt, generators |-> generators]

SetComp(elt, generators) == [type |-> "SetComp", elt |-> elt, generators |-> generators]

DictComp(key, value, generators) ==
    [type |-> "DictComp", key |-> key, value |-> value, generators |-> generators]

Assign(targets, value) == [type |-> "Assign", targets |-> targets, value |-> value]

AugAssign(target, op, value) ==
    [type |-> "AugAssign", target |-> target, op |-> op, value |-> value]

Expr(value) == [type |-> "Expr", value |-> value]

Return(value) == [type |-> "Return", value |-> value]

Pass == [type |-> "Pass"]

For(target, iter, body, orelse) ==
    [type |-> "For", target |-> target, iter |-> iter, body |-> body, orelse |-> orelse]

While(test, body, orelse) ==
    [type |-> "While", test |-> test, body |-> body, orelse |-> orelse]

If(test, body, orelse) ==
    [type |-> "If", test |-> test, body |-> body, orelse |-> orelse]

arg(a) == [type |-> "arg", arg |-> a]

arguments(args) == [type |-> "arguments", args |-> args]

FunctionDef(name, args, body) ==
    [type |-> "FunctionDef", name |-> name, args |-> args, body |-> body]

Module(body) == [type |-> "Module", body |-> body]

\* isinstance(n, ast.<T>) for T among the class names in the set types
IsInstance(n, types) == n.type \in types

\* a field that holds one optional node, as the list of the nodes it holds
Opt(n) == IF n.type = "None" THEN <<>> ELSE <<n>>

\* ast.iter_child_nodes(n): the child nodes in the order of the class's _fields
iter_child_nodes(n) ==
    CASE n.type = "Module"        -> n.body
      [] n.type = "FunctionDef"   -> <<n.args>> \o n.body
      [] n.type = "arguments"     -> n.args
      [] n.type = "For"           -> <<n.target, n.iter>> \o n.body \o n.orelse
      [] n.type = "While"         -> <<n.test>> \o n.body \o n.orelse
      [] n.type = "If"            -> <<n.test>> \o n.body \o n.orelse
      [] n.type = "Assign"        -> n.targets \o <<n.value>>
      [] n.type = "AugAssign"     -> <<n.target, n.value>>
      [] n.type = "Expr"          -> <<n.value>>
      [] n.type = "Return"        -> Opt(n.value)
      [] n.type = "Call"          -> <<n.func>> \o n.args
      [] n.type = "Attribute"     -> <<n.value>>
      [] n.type = "BinOp"         -> <<n.left, n.right>>
      [] n.type = "Compare"       -> <<n.left>> \o n.comparators
      [] n.type = "Subscript"     -> <<n.value, n.slice>>
      [] n.type = "Slice"         -> Opt(n.lower) \o Opt(n.upper)
      [] n.type = "List"          -> n.elts
      [] n.type = "Set"           -> n.elts
      [] n.type = "Dict"          -> n.keys \o n.values
      [] n.type = "ListComp"      -> <<n.elt>> \o n.generators
      [] n.type = "SetComp"       -> <<n.elt>> \o n.generators
      [] n.type = "DictComp"      -> <<n.key, n.value>> \o n.generators
      [] n.type = "comprehension" -> <<n.target, n.iter>>
      [] OTHER                    -> <<>>

\* ast.walk(node): node and all its descendants, breadth first
RECURSIVE WalkQueue(_)
WalkQueue(todo) ==
    IF todo = <<>> THEN <<>>
    ELSE <<Head(todo)>> \o WalkQueue(Tail(todo) \o iter_child_nodes(Head(todo)))

walk(node) == WalkQueue(<<node>>)

\* hasattr(node, 'body')
HasBody(node) == node.type \in {"Module", "FunctionDef", "For", "While", "If"}

\* hasattr(node, 'name')
HasName(node) == node.type = "FunctionDef"

(***************************************************************************)
(* Structural pattern detectors and the call-cost table (time).            *)
(***************************************************************************)

\* one node of the walk of _is_logarithmic_loop: does it make the loop logarithmic
LogarithmicNode(node) ==
    IF node.type = "AugAssign" THEN
        /\ node.op \in {"FloorDiv", "Div", "RShift"}
        /\ node.value.type = "Constant"
        /\ node.value.value \in {2, 1}
    ELSE IF node.type = "Assign" THEN
        /\ node.value.type = "BinOp"
        /\ IF node.value.op = "FloorDiv"
           THEN node.value.right.type = "Constant" /\ node.value.right.value = 2
           ELSE /\ node.value.op \in {"Add", "Sub"}
                /\ node.value.right.type = "Constant"
                /\ node.value.right.value = 1
    ELSE IF node.type = "While" THEN
        /\ node.test.type = "Compare"
        /\ \E i \in 1..Len(node.test.ops) : node.test.ops[i] \in {"LtE", "Lt", "GtE", "Gt"}
    ELSE FALSE

\* a faulty variant: the detector looks at the loop and at the statements
\* directly in its body, not at all its descendants
is_logarithmic_loop_shallow(loop_node) ==
    \/ LogarithmicNode(loop_node)
    \/ \E i \in 1..Len(loop_node.body) : LogarithmicNode(loop_node.body[i])

\* _is_logarithmic_loop
is_logarithmic_loop(loop_node) ==
    LET w == walk(loop_node)
    IN  \E i \in 1..Len(w) : LogarithmicNode(w[i])

\* builtin_complexities of _analyze_call_complexity
builtin_complexities ==
    << <<"sorted", "O(n log n)">>, <<"max", "O(n)">>, <<"min", "O(n)">>,
       <<"sum", "O(n)">>, <<"len", "O(1)">>, <<"abs", "O(1)">>, <<"int", "O(1)">>,
       <<"float", "O(1)">>, <<"str", "O(1)">>, <<"list", "O(n)">>,
       <<"tuple", "O(n)">>, <<"set", "O(n)">>, <<"dict", "O(n)">>,
       <<"enumerate", "O(1)">>, <<"zip", "O(1)">>, <<"range", "O(1)">>,
       <<"reversed", "O(1)">> >>

\* method_complexities of _analyze_call_complexity
method_complexities ==
    << <<"sort", "O(n log n)">>, <<"append", "O(1)">>, <<"pop", "O(1)">>,
       <<"insert", "O(n)">>, <<"remove", "O(n)">>, <<"index", "O(n)">>,
       <<"count", "O(n)">>, <<"reverse", "O(n)">>, <<"copy", "O(n)">>,
       <<"clear", "O(1)">>, <<"extend", "O(k)">>, <<"split", "O(n)">>,
       <<"join", "O(n)">>, <<"replace", "O(n)">>, <<"strip", "O(n)">>,
       <<"find", "O(n)">>, <<"get", "O(1)">>, <<"keys", "O(1)">>,
       <<"values", "O(1)">>, <<"items", "O(1)">>, <<"update", "O(k)">> >>

\* _analyze_call_complexity
analyze_call_complexity(call_node) ==
    IF call_node.func.type = "Name"
    THEN DictGet(builtin_complexities, call_node.func.id, "O(1)")
    ELSE IF call_node.func.type = "Attribute"
    THEN DictGet(method_complexities, call_node.func.attr, "O(1)")
    ELSE "O(1)"

\* _is_recursive_function (the second definition of the class, line 685, is
\* the one in force; its Attribute branch never holds: an Attribute has no id)
is_recursive_function(func_node) ==
    LET w == walk(func_node)
    IN  \E i \in 1..Len(w) :
            /\ w[i].type = "Call"
            /\ w[i].func.type = "Name"
            /\ w[i].func.id = func_node.name

\* a faulty variant: three levels are already the open-ended class
complexity_at_depth_coarse(depth) ==
    IF depth = 0 THEN "O(1)"
    ELSE IF depth = 1 THEN "O(n)"
    ELSE IF depth = 2 THEN "O(n^2)"
    ELSE "O(n^3+)"

\* _complexity_at_depth
complexity_at_depth(depth) ==
    IF depth = 0 THEN "O(1)"
    ELSE IF depth = 1 THEN "O(n)"
    ELSE IF depth = 2 THEN "O(n^2)"
    ELSE IF depth = 3 THEN "O(n^3)"
    ELSE "O(n^3+)"

(***************************************************************************)
(* The tree-based time pass.                                               *)
(***************************************************************************)

\* complexity_of_nodes, the closure of _analyze_function_complexity
RECURSIVE complexity_of_nodes(_, _)
complexity_of_node(n, current_depth, max_seq_complexity) ==
    IF IsInstance(n, {"For", "While"}) THEN
        \* combined = combine(loop_complexity, body_complexity)
        upgrade_complexity(max_seq_complexity,
            IF is_logarithmic_loop(n)
            THEN combine_complexities("O(log n)",
                     complexity_of_nodes(iter_child_nodes(n), 0))
            ELSE combine_complexities(complexity_at_depth(current_depth + 1),
                     complexity_of_nodes(iter_child_nodes(n), current_depth + 1)))
    ELSE IF IsInstance(n, {"If"}) THEN
        \* if_complexity = upgrade(body_complexity, orelse_complexity)
        upgrade_complexity(max_seq_complexity,
            upgrade_complexity(
                complexity_of_nodes(n.body, current_depth),
                IF n.orelse # <<>> THEN complexity_of_nodes(n.orelse, current_depth)
                ELSE "O(1)"))
    ELSE IF IsInstance(n, {"Call"}) THEN
        upgrade_complexity(max_seq_complexity, analyze_call_complexity(n))
    ELSE
        IF iter_child_nodes(n) # <<>>
        THEN upgrade_complexity(max_seq_complexity,
                 complexity_of_nodes(iter_child_nodes(n), current_depth))
        ELSE max_seq_complexity

RECURSIVE complexity_of_nodes_from(_, _, _, _)
complexity_of_nodes_from(nodes, current_depth, i, max_seq_complexity) ==
    IF i > Len(nodes) THEN max_seq_complexity
    ELSE complexity_of_nodes_from(nodes, current_depth, i + 1,
             complexity_of_node(nodes[i], current_depth, max_seq_complexity))

complexity_of_nodes(nodes, current_depth) ==
    complexity_of_nodes_from(nodes, current_depth, 1, "O(1)")

\* _analyze_function_complexity
analyze_function_complexity(node) ==
    complexity_of_nodes(IF HasBody(node) THEN node.body ELSE <<>>, 0)

\* the loops complexity_of_nodes(nodes, current_depth) scores, each with the
\* current_depth of the call that reaches it (lines 510-541)
RECURSIVE scored_loops(_, _)
scored_loops_of_node(n, current_depth) ==
    IF IsInstance(n, {"For", "While"}) THEN
        {<<n, current_depth>>}
            \cup scored_loops(iter_child_nodes(n),
                     IF is_logarithmic_loop(n) THEN 0 ELSE current_depth + 1)
    ELSE IF IsInstance(n, {"If"}) THEN
        scored_loops(n.body, current_depth) \cup scored_loops(n.orelse, current_depth)
    ELSE IF IsInstance(n, {"Call"}) THEN {}
    ELSE scored_loops(iter_child_nodes(n), current_depth)

scored_loops(nodes, current_depth) ==
    UNION { scored_loops_of_node(nodes[i], current_depth) : i \in 1..Len(nodes) }

\* the heuristics of _analyze_recursive_complexity over the facts it collects
recursive_calls_of(func_node) ==
    LET w == walk(func_node)
    IN  Cardinality({ i \in 1..Len(w) :
            /\ w[i].type = "Call"
            /\ w[i].func.type = "Name"
            /\ w[i].func.id = func_node.name })

\* a Call whose func is a Name takes the first branch of the walk's if chain
\* whatever its id, so the elif branches see the other nodes only
has_slicing_of(func_node) ==
    LET w == walk(func_node)
    IN  \E i \in 1..Len(w) : w[i].type = "Subscript" /\ w[i].slice.type = "Slice"

halving_assign_of(func_node) ==
    LET w == walk(func_node)
    IN  \E i \in 1..Len(w) :
            /\ w[i].type = "Assign"
            /\ w[i].value.type = "BinOp"
            /\ w[i].value.op = "FloorDiv"
            /\ w[i].value.right.type = "Constant"
            /\ w[i].value.right.value = 2

\* a faulty variant: the heuristics without the slicing fact
recursive_complexity_without_slicing(recursive_calls, divides_problem, has_slicing) ==
    IF recursive_calls = 1 THEN "O(n)"
    ELSE IF recursive_calls = 2 THEN
        IF divides_problem THEN "O(log n)" ELSE "O(n^2)"
    ELSE "O(n^3+)"

\* lines 669-683: the heuristics over the facts the walk has collected
recursive_complexity_of(recursive_calls, divides_problem, has_slicing) ==
    IF recursive_calls = 1 THEN "O(n)"
    ELSE IF recursive_calls = 2 THEN
        IF divides_problem /\ has_slicing THEN "O(n log n)"
        ELSE IF divides_problem THEN "O(log n)"
        ELSE "O(n^2)"
    ELSE "O(n^3+)"

\* _analyze_recursive_complexity
analyze_recursive_complexity(func_node) ==
    recursive_complexity_of(recursive_calls_of(func_node),
        has_slicing_of(func_node) \/ halving_assign_of(func_node),
        has_slicing_of(func_node))

\* the functions loop of _calculate_time_complexity (lines 482-490) over the
\* walk w from position i on, complexities being the dict built so far
RECURSIVE time_functions_from(_, _, _)
time_functions_from(w, i, complexities) ==
    IF i > Len(w) THEN complexities
    ELSE IF w[i].type = "FunctionDef"
    THEN time_functions_from(w, i + 1,
             DictSet(complexities, w[i].name,
                 IF is_recursive_function(w[i])
                 THEN analyze_recursive_complexity(w[i])
                 ELSE analyze_function_complexity(w[i])))
    ELSE time_functions_from(w, i + 1, complexities)

\* a faulty variant: 'overall' is the class of the last entry of the map
report_of_last(complexities) ==
    [overall |-> complexities[Len(complexities)][2], functions |-> complexities]

\* the keys of max(complexities.values(), key=self._complexity_weight)
weights_of(values) == [i \in 1..Len(values) |-> complexity_weight(values[i])]

\* lines 503-504 and 238-239: max(complexities.values(), key=_complexity_weight)
report_of(complexities) ==
    [overall   |-> DictValues(complexities)[FirstMax(weights_of(DictValues(complexities)))],
     functions |-> complexities]

\* lines 500-501 and 235-236
with_module_level(complexities, top_level_complexity) ==
    IF top_level_complexity # "O(1)"
    THEN DictSet(complexities, "<module-level>", top_level_complexity)
    ELSE complexities

\* lines 495-504 and 230-239
aggregate(complexities, top_level_complexity) ==
    IF complexities = <<>> /\ top_level_complexity = "O(1)"
    THEN [overall |-> "O(1)", functions |-> <<>>]
    ELSE report_of(with_module_level(complexities, top_level_complexity))

\* _calculate_time_complexity
calculate_time_complexity(module) ==
    aggregate(time_functions_from(walk(module), 1, <<>>),
              analyze_function_complexity(module))

(***************************************************************************)
(* The tree-based space pass.                                              *)
(***************************************************************************)

\* _space_at_depth
space_at_depth(depth) ==
    IF depth = 1 THEN "O(n)"
    ELSE IF depth = 2 THEN "O(n^2)"
    ELSE IF depth = 3 THEN "O(n^3)"
    ELSE "O(n^3+)"

\* _analyze_call_space_complexity
analyze_call_space_complexity(call_node) ==
    IF call_node.func.type = "Name" THEN
        IF call_node.func.id \in {"list", "dict", "set", "tuple"} THEN "O(n)"
        ELSE IF call_node.func.id \in {"range"} THEN "O(1)"
        ELSE IF call_node.func.id \in {"sorted"} THEN "O(n)"
        ELSE "O(1)"
    ELSE IF call_node.func.type = "Attribute" THEN
        IF call_node.func.attr \in {"copy", "deepcopy"} THEN "O(n)"
        ELSE IF call_node.func.attr \in {"split", "splitlines"} THEN "O(n)"
        ELSE IF call_node.func.attr \in {"keys", "values", "items"} THEN "O(n)"
        ELSE "O(1)"
    ELSE "O(1)"

\* a faulty variant: a list, dict or set literal is O(1) empty or not
analyze_value_space_of_size(value_node, loop_depth) ==
    LET base_space ==
          IF value_node.type \in {"ListComp", "DictComp", "SetComp"} THEN "O(n)"
          ELSE IF value_node.type = "Call" THEN analyze_call_space_complexity(value_node)
          ELSE "O(1)"
    IN  IF base_space # "O(1)" /\ loop_depth > 0
        THEN space_at_depth(loop_depth)
        ELSE base_space

\* _analyze_value_space_complexity
analyze_value_space_complexity(value_node, loop_depth) ==
    LET base_space ==
          IF value_node.type = "List"
          THEN IF Len(value_node.elts) = 0 THEN "O(n)" ELSE "O(1)"
          ELSE IF value_node.type = "Dict"
          THEN IF Len(value_node.keys) = 0 THEN "O(n)" ELSE "O(1)"
          ELSE IF value_node.type = "Set"
          THEN IF Len(value_node.elts) = 0 THEN "O(n)" ELSE "O(1)"
          ELSE IF value_node.type \in {"ListComp", "DictComp", "SetComp"} THEN "O(n)"
          ELSE IF value_node.type = "Call" THEN analyze_call_space_complexity(value_node)
          ELSE "O(1)"
    IN  IF base_space # "O(1)" /\ loop_depth > 0
        THEN space_at_depth(loop_depth)
        ELSE base_space

\* a faulty variant: append is the only accumulating method
has_append_operations(loop_node) ==
    LET w == walk(loop_node)
    IN  \E i \in 1..Len(w) :
            /\ w[i].type = "Call"
            /\ w[i].func.type = "Attribute"
            /\ w[i].func.attr = "append"

\* _has_accumulating_operations
has_accumulating_operations(loop_node) ==
    LET w == walk(loop_node)
    IN  \E i \in 1..Len(w) :
            /\ w[i].type = "Call"
            /\ w[i].func.type = "Attribute"
            /\ w[i].func.attr \in {"append", "extend", "add", "update", "insert"}

\* the fact creates_data_structures of _analyze_recursive_space
creates_data_structures_of(func_node) ==
    LET w == walk(func_node)
    IN  \E i \in 1..Len(w) :
            w[i].type \in {"List", "Dict", "Set", "ListComp", "DictComp", "SetComp"}

\* a faulty variant: the heuristics without the fact that a container is made
recursive_space_of_stack(recursive_calls, creates_data_structures, divides_problem, has_slicing) ==
    IF divides_problem THEN "O(log n)"
    ELSE IF recursive_calls = 1 THEN "O(n)"
    ELSE "O(n^2)"

\* lines 370-383: the heuristics over the facts the walk has collected
recursive_space_of(recursive_calls, creates_data_structures, divides_problem, has_slicing) ==
    IF creates_data_structures THEN
        IF divides_problem /\ has_slicing THEN "O(n)" ELSE "O(n^2)"
    ELSE IF divides_problem THEN "O(log n)"
    ELSE IF recursive_calls = 1 THEN "O(n)"
    ELSE "O(n^2)"

\* _analyze_recursive_space
analyze_recursive_space(func_node) ==
    recursive_space_of(recursive_calls_of(func_node),
        creates_data_structures_of(func_node),
        has_slicing_of(func_node) \/ halving_assign_of(func_node),
        has_slicing_of(func_node))

\* n != node (line 270): the two are different node objects.  n is always a
\* strict descendant of node, so the objects differ exactly when the trees do.
DifferentNode(n, node) == n.type # node.type \/ n # node

\* lines 264-266
after_body(body_space, max_space_complexity) ==
    IF body_space # "O(1)"
    THEN upgrade_complexity(max_space_complexity, body_space)
    ELSE max_space_complexity

\* lines 258-266: the space of a loop from the space of its body and the
\* accumulation detector
loop_space(body_space, accumulates, loop_depth, max_space_complexity) ==
    after_body(body_space,
        IF accumulates
        THEN upgrade_complexity(max_space_complexity, space_at_depth(loop_depth + 1))
        ELSE max_space_complexity)

\* space_complexity_of_nodes, the closure of _analyze_function_space_complexity;
\* node is the argument of the enclosing call
RECURSIVE space_complexity_of_nodes(_, _, _)
space_complexity_of_node(node, n, loop_depth, max_space_complexity) ==
    IF IsInstance(n, {"Assign"}) THEN
        IF \E t \in 1..Len(n.targets) : n.targets[t].type = "Name"
        THEN upgrade_complexity(max_space_complexity,
                 analyze_value_space_complexity(n.value, loop_depth))
        ELSE max_space_complexity
    ELSE IF IsInstance(n, {"For", "While"}) THEN
        loop_space(
            space_complexity_of_nodes(node, iter_child_nodes(n), loop_depth + 1),
            has_accumulating_operations(n), loop_depth, max_space_complexity)
    ELSE IF IsInstance(n, {"FunctionDef"}) THEN
        IF DifferentNode(n, node) /\ is_recursive_function(n)
        THEN upgrade_complexity(max_space_complexity, analyze_recursive_space(n))
        ELSE max_space_complexity
    ELSE IF IsInstance(n, {"Call"}) THEN
        upgrade_complexity(max_space_complexity, analyze_call_space_complexity(n))
    ELSE
        IF iter_child_nodes(n) # <<>>
        THEN upgrade_complexity(max_space_complexity,
                 space_complexity_of_nodes(node, iter_child_nodes(n), loop_depth))
        ELSE max_space_complexity

RECURSIVE space_complexity_of_nodes_from(_, _, _, _, _)
space_complexity_of_nodes_from(node, nodes, loop_depth, i, max_space_complexity) ==
    IF i > Len(nodes) THEN max_space_complexity
    ELSE space_complexity_of_nodes_from(node, nodes, loop_depth, i + 1,
             space_complexity_of_node(node, nodes[i], loop_depth, max_space_complexity))

space_complexity_of_nodes(node, nodes, loop_depth) ==
    space_complexity_of_nodes_from(node, nodes, loop_depth, 1, "O(1)")

\* _analyze_function_space_complexity
analyze_function_space_complexity(node) ==
    IF HasName(node) /\ is_recursive_function(node)
    THEN analyze_recursive_space(node)
    ELSE space_complexity_of_nodes(node, IF HasBody(node) THEN node.body ELSE <<>>, 0)

\* the functions loop of _calculate_space_complexity (lines 217-225)
RECURSIVE space_functions_from(_, _, _)
space_functions_from(w, i, complexities) ==
    IF i > Len(w) THEN complexities
    ELSE IF w[i].type = "FunctionDef"
    THEN space_functions_from(w, i + 1,
             DictSet(complexities, w[i].name,
                 IF is_recursive_function(w[i])
                 THEN analyze_recursive_space(w[i])
                 ELSE analyze_function_space_complexity(w[i])))
    ELSE space_functions_from(w, i + 1, complexities)

\* _calculate_space_complexity
calculate_space_complexity(module) ==
    aggregate(space_functions_from(walk(module), 1, <<>>),
              analyze_function_space_complexity(module))

(***************************************************************************)
(* The text-based passes.  A source text is the sequence of its lines, and *)
(* a line is the record of which of the scan's regular expressions match   *)
(* it: loop (for_pattern or while_pattern), closes (the stripped line ends *)
(* with a closing brace), alloc (new X or malloc( ), blank.  The regular   *)
(* expressions applied to the whole text are the fields of the record      *)
(* 'facts' of a text.                                                      *)
(***************************************************************************)
Line(loop, closes, alloc, blank) ==
    [loop |-> loop, closes |-> closes, alloc |-> alloc, blank |-> blank]

\* lines 196-204: the class of the maximum of the loop-depth counter
complexity_of_max_depth(max_depth) ==
    IF max_depth = 0 THEN "O(1)"
    ELSE IF max_depth = 1 THEN "O(n)"
    ELSE IF max_depth = 2 THEN "O(n^2)"
    ELSE "O(n^3+)"

\* a faulty variant: a closing brace lowers the counter whatever its value
time_scan_line_unfloored(line, current_depth, max_depth) ==
    IF line.loop
    THEN <<current_depth + 1,
           IF current_depth + 1 > max_depth THEN current_depth + 1 ELSE max_depth>>
    ELSE IF line.closes
    THEN <<current_depth - 1, max_depth>>
    ELSE <<current_depth, max_depth>>

\* one iteration of the line scan of _estimate_complexity_from_text (lines
\* 189-194): <<current_depth, max_depth>> after the line
time_scan_line(line, current_depth, max_depth) ==
    IF line.loop
    THEN <<current_depth + 1,
           IF current_depth + 1 > max_depth THEN current_depth + 1 ELSE max_depth>>
    ELSE IF line.closes /\ current_depth > 0
    THEN <<IF current_depth - 1 > 0 THEN current_depth - 1 ELSE 0, max_depth>>
    ELSE <<current_depth, max_depth>>

\* the line scan of _estimate_complexity_from_text (lines 188-194)
RECURSIVE max_depth_from(_, _, _, _)
max_depth_from(lines, i, current_depth, max_depth) ==
    IF i > Len(lines) THEN max_depth
    ELSE max_depth_from(lines, i + 1,
             time_scan_line(lines[i], current_depth, max_depth)[1],
             time_scan_line(lines[i], current_depth, max_depth)[2])

\* lines 196-210: the value stored in metrics['time_complexity'], from the
\* maximum of the counter and the search for a sort call in the text
text_time_report(max_depth, sort_call) ==
    [overall   |-> IF sort_call /\ complexity_of_max_depth(max_depth) = "O(1)"
                   THEN "O(n log n)" ELSE complexity_of_max_depth(max_depth),
     estimated |-> TRUE]

\* _estimate_complexity_from_text: the value stored in metrics['time_complexity']
estimate_complexity_from_text(code) ==
    text_time_report(max_depth_from(code.lines, 1, 0, 0), code.facts.sort_call)

\* lines 430-449: the class the searches in the whole text leave
space_before_scan(facts) ==
    IF facts.array_2d THEN "O(n^2)"
    ELSE IF facts.recursive_pattern \/ facts.collection_type \/ facts.array_alloc
    THEN "O(n)"
    ELSE "O(1)"

\* one iteration of the line scan of _estimate_space_complexity_from_text
\* (lines 455-465): <<in_loop, loop_depth, space_complexity>> after the line
space_scan_line(line, in_loop, loop_depth, space_complexity) ==
    IF line.loop
    THEN <<TRUE, loop_depth + 1, space_complexity>>
    ELSE IF line.closes /\ in_loop
    THEN <<(IF loop_depth - 1 > 0 THEN loop_depth - 1 ELSE 0) # 0,
           IF loop_depth - 1 > 0 THEN loop_depth - 1 ELSE 0,
           space_complexity>>
    ELSE IF in_loop /\ line.alloc
    THEN <<in_loop, loop_depth,
           IF loop_depth = 1 THEN upgrade_complexity(space_complexity, "O(n)")
           ELSE IF loop_depth >= 2 THEN upgrade_complexity(space_complexity, "O(n^2)")
           ELSE space_complexity>>
    ELSE <<in_loop, loop_depth, space_complexity>>

\* the line scan of _estimate_space_complexity_from_text (lines 452-465)
RECURSIVE space_scan_from(_, _, _, _, _)
space_scan_from(lines, i, in_loop, loop_depth, space_complexity) ==
    IF i > Len(lines) THEN space_complexity
    ELSE space_scan_from(lines, i + 1,
             space_scan_line(lines[i], in_loop, loop_depth, space_complexity)[1],
             space_scan_line(lines[i], in_loop, loop_depth, space_complexity)[2],
             space_scan_line(lines[i], in_loop, loop_depth, space_complexity)[3])

\* line 467: the value stored in metrics['space_complexity']
text_space_report(space_complexity) ==
    [overall |-> space_complexity, estimated |-> TRUE]

\* _estimate_space_complexity_from_text: the value stored in
\* metrics['space_complexity']
estimate_space_complexity_from_text(code) ==
    text_space_report(
        space_scan_from(code.lines, 1, FALSE, 0, space_before_scan(code.facts)))

\* str(n) for the small numbers the model's messages hold
Str(n) ==
    CASE n = 0 -> "0" [] n = 1 -> "1" [] n = 2 -> "2" [] n = 3 -> "3"
      [] n = 4 -> "4" [] n = 5 -> "5" [] OTHER -> "many"

\* Issue messages are the sequences of the pieces of their f-strings.
\* _analyze_java_patterns: the <<category, message>> pairs it appends, in order
java_pattern_issues(code) ==
    (IF code.facts.system_out_print
     THEN << <<"Best Practices",
               <<"Consider using a logging framework instead of System.out.print">> >> >>
     ELSE <<>>)
    \o (IF code.facts.try_blocks > code.facts.catch_blocks
        THEN << <<"Exception Handling",
                  <<"Try blocks without corresponding catch blocks detected">> >> >>
        ELSE <<>>)
    \o (IF code.facts.magic_numbers > 5
        THEN << <<"Code Quality",
                  <<"Consider using constants for magic numbers: ",
                    code.facts.magic_number_set>> >> >>
        ELSE <<>>)

\* _analyze_c_patterns
c_pattern_issues(code) ==
    (IF code.facts.malloc_count > code.facts.free_count
     THEN << <<"Memory Management",
               <<"Potential memory leak: ", Str(code.facts.malloc_count),
                 " malloc calls but only ", Str(code.facts.free_count),
                 " free calls">> >> >>
     ELSE <<>>)
    \o (IF code.facts.strcpy
        THEN << <<"Security",
                  <<"strcpy() can cause buffer overflows, consider using strncpy()">> >> >>
        ELSE <<>>)
    \o (IF code.facts.gets
        THEN << <<"Security", <<"gets() is unsafe, use fgets() instead">> >> >>
        ELSE <<>>)

\* _analyze_cpp_patterns
cpp_pattern_issues(code) ==
    c_pattern_issues(code)
    \o (IF code.facts.raw_pointer /\ ~code.facts.smart_ptr
        THEN << <<"Modern C++",
                  <<"Consider using smart pointers instead of raw pointers">> >> >>
        ELSE <<>>)
    \o (IF code.facts.traditional_loops > 0
        THEN << <<"Modern C++",
                  <<"Consider using range-based for loops for better readability">> >> >>
        ELSE <<>>)

\* _calculate_basic_metrics: the <<key, value>> pairs it stores, in order
basic_metrics(code) ==
    << <<"lines_of_code", Len(code.lines)>>,
       <<"comment_lines", code.facts.comment_matches>>,
       <<"blank_lines", Cardinality({ i \in 1..Len(code.lines) : code.lines[i].blank })>> >>

(***************************************************************************)
(* The analyzer object and the objects it shares with its callers.         *)
(*                                                                         *)
(* A state S of the analyzer and of the heap is the record                 *)
(*   issues  : the content of the defaultdict self.issues (one object for  *)
(*             the life of the analyzer), a dict category -> list object   *)
(*   metrics : the dict object self.metrics refers to                      *)
(*   lists   : the list objects, lists[r] the content of list object r     *)
(*   dicts   : the metrics dict objects, dicts[r] the content of object r  *)
(***************************************************************************)

\* a faulty variant: the issues of the previous call are kept
issues_keep(S) == S

\* self.issues.clear() (line 28)
issues_clear(S) == [S EXCEPT !.issues = <<>>]

\* self.metrics = {} (line 29): a new dict object
metrics_reset(S) ==
    [S EXCEPT !.dicts = Append(S.dicts, <<>>), !.metrics = Len(S.dicts) + 1]

\* self.issues[category].append(message): the defaultdict makes the list of
\* a category that has none
issues_append(S, category, message) ==
    IF DictHas(S.issues, category)
    THEN LET r == DictGet(S.issues, category, 0)
         IN  [S EXCEPT !.lists[r] = Append(S.lists[r], message)]
    ELSE [S EXCEPT !.lists  = Append(S.lists, <<message>>),
                   !.issues = Append(S.issues, <<category, Len(S.lists) + 1>>)]

RECURSIVE issues_append_all(_, _, _)
issues_append_all(S, pairs, i) ==
    IF i > Len(pairs) THEN S
    ELSE issues_append_all(issues_append(S, pairs[i][1], pairs[i][2]), pairs, i + 1)

\* self.metrics[key] = value
metrics_set(S, key, value) ==
    [S EXCEPT !.dicts[S.metrics] = DictSet(S.dicts[S.metrics], key, value)]

RECURSIVE metrics_set_all(_, _, _)
metrics_set_all(S, pairs, i) ==
    IF i > Len(pairs) THEN S
    ELSE metrics_set_all(metrics_set(S, pairs[i][1], pairs[i][2]), pairs, i + 1)

\* {k: v for k, v in self.issues.items() if v} (line 54): a new dict that
\* holds the same list objects
RECURSIVE non_empty_from(_, _)
non_empty_from(S, i) ==
    IF i > Len(S.issues) THEN <<>>
    ELSE (IF S.lists[S.issues[i][2]] # <<>> THEN <<S.issues[i]>> ELSE <<>>)
         \o non_empty_from(S, i + 1)

(***************************************************************************)
(* Files.  A path is the record of its root and its extension              *)
(* (os.path.splitext).                                                     *)
(***************************************************************************)
Path(root, ext) == [root |-> root, ext |-> ext]

\* str.lower() on the extensions of the model's files
Lower(ext) ==
    CASE ext = ".PY"  -> ".py"
      [] ext = ".CPP" -> ".cpp"
      [] OTHER        -> ext

\* self.language_map (lines 13-25)
language_map ==
    << <<".py", "python">>, <<".java", "java">>, <<".c", "c">>, <<".cpp", "cpp">>,
       <<".cc", "cpp">>, <<".cxx", "cpp">>, <<".c++", "cpp">>, <<".h", "c">>,
       <<".hpp", "cpp">>, <<".hh", "cpp">>, <<".hxx", "cpp">> >>

\* _check_unused_variables: the names stored and never loaded, in the order
\* of their first store in the walk
RECURSIVE unused_from(_, _, _)
unused_from(w, i, seen) ==
    IF i > Len(w) THEN <<>>
    ELSE IF /\ w[i].type = "Name"
            /\ w[i].ctx = "Store"
            /\ w[i].id \notin seen
            /\ ~\E j \in 1..Len(w) :
                   w[j].type = "Name" /\ w[j].ctx = "Load" /\ w[j].id = w[i].id
    THEN << <<"Unused Variables", <<"Unused variable: ", w[i].id>> >> >>
         \o unused_from(w, i + 1, seen \cup {w[i].id})
    ELSE unused_from(w, i + 1, seen)

unused_variable_issues(tree) == unused_from(walk(tree), 1, {})

(***************************************************************************)
(* The files of the model's file system.                                   *)
(***************************************************************************)
Load(id) == Name(id, "Load")

Store(id) == Name(id, "Store")

\* def scan(items):
\*     for x in items:
\*         pass
LoopTree ==
    Module(<< FunctionDef("scan", arguments(<<arg("items")>>),
                << For(Store("x"), Load("items"), <<Pass>>, <<>>) >>) >>)

\* def find(a, t):
\*     lo = 0
\*     hi = len(a)
\*     while lo < hi:
\*         mid = (lo + hi) // 2
\*         lo = mid + 1
\*     return lo
\* data = []
SearchTree ==
    Module(<< FunctionDef("find", arguments(<<arg("a"), arg("t")>>),
                << Assign(<<Store("lo")>>, Constant(0)),
                   Assign(<<Store("hi")>>, Call(Load("len"), <<Load("a")>>)),
                   While(Compare(Load("lo"), <<"Lt">>, <<Load("hi")>>),
                     << Assign(<<Store("mid")>>,
                          BinOp(BinOp(Load("lo"), "Add", Load("hi")), "FloorDiv", Constant(2))),
                        Assign(<<Store("lo")>>, BinOp(Load("mid"), "Add", Constant(1))) >>,
                     <<>>),
                   Return(Load("lo")) >>),
              Assign(<<Store("data")>>, ListNode(<<>>)) >>)

PythonCode(lines_of_code, comment_lines, parse) ==
    [lines_of_code |-> lines_of_code, comment_lines |-> comment_lines, parse |-> parse]

NoFacts ==
    [sort_call |-> FALSE, array_alloc |-> FALSE, collection_type |-> FALSE,
     recursive_pattern |-> FALSE, array_2d |-> FALSE, comment_matches |-> 0,
     system_out_print |-> FALSE, try_blocks |-> 0, catch_blocks |-> 0,
     magic_numbers |-> 0, magic_number_set |-> "{}",
     malloc_count |-> 0, free_count |-> 0, strcpy |-> FALSE, gets |-> FALSE,
     raw_pointer |-> FALSE, smart_ptr |-> FALSE, traditional_loops |-> 0]

\* for (int i = 0; i < n; i++) {
\*     int[] row = new int[n];
\*     System.out.println(row);
\* }
JavaCode ==
    [lines |-> << Line(TRUE, FALSE, FALSE, FALSE), Line(FALSE, FALSE, TRUE, FALSE),
                  Line(FALSE, FALSE, FALSE, FALSE), Line(FALSE, TRUE, FALSE, FALSE) >>,
     facts |-> [NoFacts EXCEPT !.array_alloc = TRUE, !.system_out_print = TRUE]]

\* // fill
\* for (i = 0; i < n; i++) {
\*     for (j = 0; j < n; j++) {
\*         p = malloc(n);
\*     }
\* }
\*
CCode ==
    [lines |-> << Line(FALSE, FALSE, FALSE, FALSE), Line(TRUE, FALSE, FALSE, FALSE),
                  Line(TRUE, FALSE, FALSE, FALSE), Line(FALSE, FALSE, TRUE, FALSE),
                  Line(FALSE, TRUE, FALSE, FALSE), Line(FALSE, TRUE, FALSE, FALSE),
                  Line(FALSE, FALSE, FALSE, TRUE) >>,
     facts |-> [NoFacts EXCEPT !.array_alloc = TRUE, !.comment_matches = 1,
                               !.malloc_count = 1]]

\* std::sort(v.begin(), v.end());
\* strcpy(a, b);
CppCode ==
    [lines |-> << Line(FALSE, FALSE, FALSE, FALSE), Line(FALSE, FALSE, FALSE, FALSE) >>,
     facts |-> [NoFacts EXCEPT !.sort_call = TRUE, !.strcpy = TRUE]]

NotesTxt == Path("notes", ".txt")
BadPy    == Path("bad", ".py")
LoopPy   == Path("loop", ".py")
SearchPy == Path("search", ".PY")
NulPy    == Path("nul", ".py")
MainJava == Path("Main", ".java")
UtilC    == Path("util", ".c")
LockedC  == Path("locked", ".c")
VecCpp   == Path("vec", ".CPP")

Files == {NotesTxt, BadPy, LoopPy, SearchPy, NulPy, MainJava, UtilC, LockedC, VecCpp}

\* open(file_path).read() (lines 39-40): the text read, or the exception raised
ReadFile(file_path) ==
    CASE file_path = BadPy ->
           [kind |-> "ok", code |-> PythonCode(1, 0,
               [kind |-> "SyntaxError", lineno |-> 1, msg |-> "invalid syntax"])]
      [] file_path = LoopPy ->
           [kind |-> "ok", code |-> PythonCode(4, 0, [kind |-> "Module", tree |-> LoopTree])]
      [] file_path = SearchPy ->
           [kind |-> "ok", code |-> PythonCode(10, 1, [kind |-> "Module", tree |-> SearchTree])]
      [] file_path = NulPy ->
           [kind |-> "ok", code |-> PythonCode(1, 0,
               [kind |-> "ValueError", msg |-> "source code string cannot contain null bytes"])]
      [] file_path = MainJava -> [kind |-> "ok", code |-> JavaCode]
      [] file_path = UtilC    -> [kind |-> "ok", code |-> CCode]
      [] file_path = VecCpp   -> [kind |-> "ok", code |-> CppCode]
      [] file_path = LockedC  -> [kind |-> "OSError", msg |-> "[Errno 13] Permission denied"]
      [] OTHER                -> [kind |-> "ok", code |-> PythonCode(0, 0,
                                     [kind |-> "Module", tree |-> Module(<<>>)])]

(***************************************************************************)
(* analyze_file, statement by statement.  A call in progress is the record *)
(* w of its position pc and its local variables; a step takes the state S  *)
(* of the analyzer and w to [st |-> the new S, w |-> the new w].           *)
(***************************************************************************)
NoResult == [kind |-> "none"]

\* an exception: its class and str(e), the latter as the pieces of the text
Exception(class, text) == [class |-> class, text |-> text]

NoException == Exception("None", <<>>)

\* the entry of analyze_file(file_path)
Entry(file_path) ==
    [pc |-> "clear", file_path |-> file_path, language |-> "None",
     exc |-> NoException, non_empty |-> <<>>, result |-> NoResult]

Finished(w) == w.pc \in {"done", "raised"}

\* line 28
step_clear(S, w) == [st |-> issues_clear(S), w |-> [w EXCEPT !.pc = "reset"]]

\* line 29
step_reset(S, w) == [st |-> metrics_reset(S), w |-> [w EXCEPT !.pc = "language"]]

\* lines 31-35
step_language(S, w) ==
    LET file_ext == Lower(w.file_path.ext)
        language == DictGet(language_map, file_ext, "None")
    IN  IF language = "None"
        THEN [st |-> issues_append(S, "General Errors",
                         <<"Unsupported file type: ", file_ext>>),
              w  |-> [w EXCEPT !.pc = "return_unsupported"]]
        ELSE [st |-> S, w |-> [w EXCEPT !.pc = "read", !.language = language]]

\* line 36: the result holds the objects self.issues and self.metrics
step_return_unsupported(S, w) ==
    [st |-> S,
     w  |-> [w EXCEPT !.pc = "done",
                      !.result = [kind      |-> "dict",
                                  keys      |-> <<"issues", "metrics", "file_path">>,
                                  issues    |-> [alias |-> TRUE, items |-> <<>>],
                                  metrics   |-> S.metrics,
                                  file_path |-> w.file_path,
                                  language  |-> "None"]]]

\* lines 39-49: open and read, then the dispatch on the language
step_read(S, w) ==
    LET r == ReadFile(w.file_path)
    IN  IF r.kind # "ok"
        THEN [st |-> S, w |-> [w EXCEPT !.pc = "except", !.exc = Exception(r.kind, <<r.msg>>)]]
        ELSE [st |-> S,
              w  |-> [w EXCEPT !.pc = IF w.language = "python" THEN "parse"
                                      ELSE "basic_metrics"]]

\* a faulty variant: no handler in _analyze_python, the SyntaxError propagates
on_syntax_error_propagate(S, w, e) ==
    [st |-> S,
     w  |-> [w EXCEPT !.pc = "except",
                      !.exc = Exception("SyntaxError",
                                  <<e.msg, " (<unknown>, line ", Str(e.lineno), ")">>)]]

\* lines 83-84
on_syntax_error(S, w, e) ==
    [st |-> issues_append(S, "Syntax Errors", <<"Line ", Str(e.lineno), ": ", e.msg>>),
     w  |-> [w EXCEPT !.pc = "non_empty"]]

\* line 69, with the handler of lines 83-84
step_parse(S, w) ==
    LET parse == ReadFile(w.file_path).code.parse
    IN  IF parse.kind = "SyntaxError" THEN on_syntax_error(S, w, parse)
        ELSE IF parse.kind # "Module"
        THEN [st |-> S, w |-> [w EXCEPT !.pc = "except", !.exc = Exception(parse.kind, <<parse.msg>>)]]
        ELSE [st |-> S, w |-> [w EXCEPT !.pc = "check_complexity"]]

\* line 70: _check_complexity (lines 469-471)
step_check_complexity(S, w) ==
    [st |-> metrics_set(S, "time_complexity",
                calculate_time_complexity(ReadFile(w.file_path).code.parse.tree)),
     w  |-> [w EXCEPT !.pc = "calculate_metrics"]]

\* line 71: _calculate_metrics (lines 473-476)
step_calculate_metrics(S, w) ==
    LET code == ReadFile(w.file_path).code
    IN  [st |-> metrics_set(metrics_set(S, "lines_of_code", code.lines_of_code),
                    "comment_lines", code.comment_lines),
         w  |-> [w EXCEPT !.pc = "check_unused"]]

\* line 72: _check_unused_variables
step_check_unused(S, w) ==
    [st |-> issues_append_all(S,
                unused_variable_issues(ReadFile(w.file_path).code.parse.tree), 1),
     w  |-> [w EXCEPT !.pc = "ensure"]]

\* lines 75-76
ensure_time(S) ==
    IF ~DictHas(S.dicts[S.metrics], "time_complexity")
    THEN metrics_set(S, "time_complexity", [overall |-> "O(1)", functions |-> <<>>])
    ELSE S

\* lines 79-81
ensure_space(S, module) ==
    IF ~DictHas(S.dicts[S.metrics], "space_complexity")
    THEN metrics_set(S, "space_complexity", calculate_space_complexity(module))
    ELSE S

\* lines 75-81
step_ensure(S, w) ==
    [st |-> ensure_space(ensure_time(S), ReadFile(w.file_path).code.parse.tree),
     w  |-> [w EXCEPT !.pc = "non_empty"]]

\* lines 88, 95, 102: _calculate_basic_metrics
step_basic_metrics(S, w) ==
    [st |-> metrics_set_all(S, basic_metrics(ReadFile(w.file_path).code), 1),
     w  |-> [w EXCEPT !.pc = "patterns"]]

\* lines 89, 96, 103: _analyze_java_patterns, _analyze_c_patterns, _analyze_cpp_patterns
step_patterns(S, w) ==
    LET code == ReadFile(w.file_path).code
        found == IF w.language = "java" THEN java_pattern_issues(code)
                 ELSE IF w.language = "c" THEN c_pattern_issues(code)
                 ELSE cpp_pattern_issues(code)
    IN  [st |-> issues_append_all(S, found, 1),
         w  |-> [w EXCEPT !.pc = "estimate_time"]]

\* lines 90, 97, 104: _estimate_complexity_from_text
step_estimate_time(S, w) ==
    [st |-> metrics_set(S, "time_complexity",
                estimate_complexity_from_text(ReadFile(w.file_path).code)),
     w  |-> [w EXCEPT !.pc = "estimate_space"]]

\* lines 91, 98, 105: _estimate_space_complexity_from_text
step_estimate_space(S, w) ==
    [st |-> metrics_set(S, "space_complexity",
                estimate_space_complexity_from_text(ReadFile(w.file_path).code)),
     w  |-> [w EXCEPT !.pc = "non_empty"]]

\* a faulty variant: except OSError, any other exception leaves analyze_file
except_OSError(exc) == exc.class = "OSError"

\* except Exception (line 51): the exceptions the clause catches
except_Exception(exc) ==
    exc.class \in {"OSError", "ValueError", "SyntaxError", "RecursionError", "MemoryError"}

\* lines 51-52
step_except(S, w) ==
    IF except_Exception(w.exc)
    THEN [st |-> issues_append(S, "General Errors", <<"Error analyzing file: ">> \o w.exc.text),
          w  |-> [w EXCEPT !.pc = "non_empty"]]
    ELSE [st |-> S, w |-> [w EXCEPT !.pc = "raised"]]

\* line 54
step_non_empty(S, w) ==
    [st |-> S, w |-> [w EXCEPT !.pc = "return", !.non_empty = non_empty_from(S, 1)]]

\* line 55: the result holds the new dict non_empty and the object self.metrics
step_return(S, w) ==
    [st |-> S,
     w  |-> [w EXCEPT !.pc = "done",
                      !.result = [kind      |-> "dict",
                                  keys      |-> <<"issues", "metrics", "file_path", "language">>,
                                  issues    |-> [alias |-> FALSE, items |-> w.non_empty],
                                  metrics   |-> S.metrics,
                                  file_path |-> w.file_path,
                                  language  |-> w.language]]]

\* the next statement of the call w
Step(S, w) ==
    CASE w.pc = "clear"              -> step_clear(S, w)
      [] w.pc = "reset"              -> step_reset(S, w)
      [] w.pc = "language"           -> step_language(S, w)
      [] w.pc = "return_unsupported" -> step_return_unsupported(S, w)
      [] w.pc = "read"               -> step_read(S, w)
      [] w.pc = "parse"              -> step_parse(S, w)
      [] w.pc = "check_complexity"   -> step_check_complexity(S, w)
      [] w.pc = "calculate_metrics"  -> step_calculate_metrics(S, w)
      [] w.pc = "check_unused"       -> step_check_unused(S, w)
      [] w.pc = "ensure"             -> step_ensure(S, w)
      [] w.pc = "basic_metrics"      -> step_basic_metrics(S, w)
      [] w.pc = "patterns"           -> step_patterns(S, w)
      [] w.pc = "estimate_time"      -> step_estimate_time(S, w)
      [] w.pc = "estimate_space"     -> step_estimate_space(S, w)
      [] w.pc = "except"             -> step_except(S, w)
      [] w.pc = "non_empty"          -> step_non_empty(S, w)
      [] w.pc = "return"             -> step_return(S, w)

RECURSIVE RunToEnd(_)
RunToEnd(n) == IF Finished(n.w) THEN n ELSE RunToEnd(Step(n.st, n.w))

\* analyze_file(file_path) run from entry to return without interruption
analyze_file(S, file_path) == RunToEnd([st |-> S, w |-> Entry(file_path)])

\* analyze_directory: files is the sequence of paths os.walk yields
RECURSIVE analyze_directory_from(_, _, _, _)
\* line 63: results.append(self.analyze_file(...)), r being what the call
\* ended with; an exception that leaves analyze_file leaves analyze_directory
results_append(r, files, i, results) ==
    IF r.w.pc = "raised"
    THEN [st |-> r.st, results |-> <<>>, raised |-> TRUE]
    ELSE analyze_directory_from(r.st, files, i + 1, Append(results, r.w.result))

analyze_directory_from(S, files, i, results) ==
    IF i > Len(files) THEN [st |-> S, results |-> results, raised |-> FALSE]
    ELSE IF DictHas(language_map, Lower(files[i].ext))
    THEN results_append(analyze_file(S, files[i]), files, i, results)
    ELSE analyze_directory_from(S, files, i + 1, results)

analyze_directory(S, files) == analyze_directory_from(S, files, 1, <<>>)

\* the analyzer after __init__ (lines 9-10)
NewAnalyzer == [issues |-> <<>>, metrics |-> 1, lists |-> <<>>, dicts |-> << <<>> >>]

\* what a result shows to its holder: result['issues'] and result['metrics']
IssuesOf(S, result) ==
    LET items == IF result.issues.alias THEN S.issues ELSE result.issues.items
    IN  [i \in 1..Len(items) |-> <<items[i][1], S.lists[items[i][2]]>>]

MetricsOf(S, result) == S.dicts[result.metrics]

Shown(S, result) ==
    [issues |-> IssuesOf(S, result), metrics |-> MetricsOf(S, result),
     keys |-> result.keys, file_path |-> result.file_path, language |-> result.language]

(***************************************************************************)
(* State.                                                                  *)
(***************************************************************************)
VARIABLES
    self_issues,    \* the content of the defaultdict self.issues
    self_metrics,   \* the dict object self.metrics refers to
    lists,          \* the list objects
    dicts,          \* the metrics dict objects
    returned,       \* the results analyze_file has returned, each with what it
                    \* showed when it was returned
    directory,      \* the call of analyze_directory and what it returned
    calls,          \* the analyze_file calls in progress, one per worker
    c1, c2,         \* two class tokens
    upgraded,       \* <<_upgrade_complexity(c1, c2), _upgrade_complexity(c2, c1)>>
    combined,       \* <<_combine_complexities(c1, c2), _combine_complexities(c2, c1)>>
    tree,           \* a parsed module
    time_complexity,  \* <<_calculate_time_complexity(tree)>> once it is computed
    space_complexity, \* <<_calculate_space_complexity(tree)>> once it is computed
    scan,           \* the text passes over one source text: the text, the
                    \* position in it and the local variables of the scans
    scores          \* the metrics of one analysis result and what the score
                    \* and chart functions make of them

analyzer_vars == <<self_issues, self_metrics, lists, dicts>>

lattice_vars == <<c1, c2, upgraded, combined>>

tree_vars == <<tree, time_complexity, space_complexity>>

text_vars == <<scan>>

score_vars == <<scores>>

vars == <<self_issues, self_metrics, lists, dicts, returned, directory, calls,
          c1, c2, upgraded, combined, tree, time_complexity, space_complexity,
          scan, scores>>

\* the analyzer and the heap as one state record
Now == [issues |-> self_issues, metrics |-> self_metrics, lists |-> lists, dicts |-> dicts]

Becomes(S) ==
    /\ self_issues'  = S.issues
    /\ self_metrics' = S.metrics
    /\ lists'        = S.lists
    /\ dicts'        = S.dicts

NotSet == "not set"

NoDirectory == [files |-> <<>>, results |-> <<>>, raised |-> FALSE, done |-> FALSE]

AnalyzerInit ==
    /\ self_issues  = NewAnalyzer.issues
    /\ self_metrics = NewAnalyzer.metrics
    /\ lists        = NewAnalyzer.lists
    /\ dicts        = NewAnalyzer.dicts
    /\ returned     = <<>>
    /\ directory    = NoDirectory

LatticeIdle == c1 = "O(1)" /\ c2 = "O(1)" /\ upgraded = <<>> /\ combined = <<>>

TreeIdle == tree = Module(<<>>) /\ time_complexity = <<>> /\ space_complexity = <<>>

\* the local variables of the two text passes at the start of the first one
StartOfScan(code) ==
    [code |-> code, pc |-> "time", i |-> 1,
     current_depth |-> 0, max_depth |-> 0,
     in_loop |-> FALSE, loop_depth |-> 0, space_complexity |-> "O(1)",
     time |-> <<>>, space |-> <<>>]

TextIdle == scan = [StartOfScan([lines |-> <<>>, facts |-> NoFacts]) EXCEPT !.pc = "idle"]

\* an analysis result that no score or chart function has read yet
StartOfScores(metrics, issue_count) ==
    [metrics |-> metrics, issue_count |-> issue_count,
     quality_score |-> <<>>, complexity_score |-> <<>>, numeric |-> <<>>]

NoMetrics ==
    [time_complexity |-> "O(1)", space_complexity |-> "O(1)",
     lines_of_code |-> 1, comment_lines |-> 0]

ScoreIdle == scores = StartOfScores(NoMetrics, 0)

(***************************************************************************)
(* Spec: one caller, one call at a time.                                   *)
(***************************************************************************)
MaxCalls == 3

MaxDirFiles == 2

\* the files of the folders analyze_directory is called on
Folder == {NotesTxt, BadPy, LoopPy, NulPy, LockedC}

\* the listings os.walk can yield: files of the folder in any order
Listings ==
    { fs \in UNION { [1..k -> Folder] : k \in 0..MaxDirFiles } :
        \A i, j \in 1..Len(fs) : i # j => fs[i] # fs[j] }

Supported(files) == { i \in 1..Len(files) : DictHas(language_map, Lower(files[i].ext)) }

\* the analyze_file calls made so far, directly or by analyze_directory
CallsMade == Len(returned) + Cardinality(Supported(directory.files))

\* what the caller holds of a call that has ended as r
Outcome(r) ==
    IF r.w.pc = "done"
    THEN [result |-> r.w.result, shown |-> Shown(r.st, r.w.result)]
    ELSE [result |-> NoResult, shown |-> NoResult]

Returns(r) == Becomes(r.st) /\ returned' = Append(returned, Outcome(r))

DirectoryReturns(files, r) ==
    /\ Becomes(r.st)
    /\ directory' = [files |-> files, results |-> r.results,
                     raised |-> r.raised, done |-> TRUE]

\* result = analyzer.analyze_file(file_path)
AnalyzeFile(file_path) ==
    /\ CallsMade < MaxCalls
    /\ Returns(analyze_file(Now, file_path))
    /\ UNCHANGED <<directory, calls, lattice_vars, tree_vars, text_vars, score_vars>>

\* results = analyzer.analyze_directory(directory)
AnalyzeDirectory(files) ==
    /\ ~directory.done
    /\ CallsMade + Cardinality(Supported(files)) <= MaxCalls
    /\ DirectoryReturns(files, analyze_directory(Now, files))
    /\ UNCHANGED <<returned, calls, lattice_vars, tree_vars, text_vars, score_vars>>

Init ==
    /\ AnalyzerInit
    /\ calls = <<>>
    /\ LatticeIdle
    /\ TreeIdle
    /\ TextIdle
    /\ ScoreIdle

Next ==
    \/ \E file_path \in Files : AnalyzeFile(file_path)
    \/ \E files \in Listings : AnalyzeDirectory(files)

Spec == Init /\ [][Next]_vars

(***************************************************************************)
(* SpecConc: two workers share one analyzer, each analyzes one file, and   *)
(* their calls of analyze_file interleave statement by statement.          *)
(***************************************************************************)
Workers == {1, 2}

\* worker i has executed its next statement, which led to n
Advance(i, n) ==
    /\ Becomes(n.st)
    /\ calls' = [calls EXCEPT ![i] = n.w]
    /\ returned' = IF Finished(n.w) THEN Append(returned, Outcome(n)) ELSE returned
    /\ UNCHANGED <<directory, lattice_vars, tree_vars, text_vars, score_vars>>

ClearIssues(i) ==
    /\ calls[i].pc = "clear"
    /\ Advance(i, Step(Now, calls[i]))

ResetMetrics(i) ==
    /\ calls[i].pc = "reset"
    /\ Advance(i, Step(Now, calls[i]))

LookUpLanguage(i) ==
    /\ calls[i].pc = "language"
    /\ Advance(i, Step(Now, calls[i]))

ReturnUnsupported(i) ==
    /\ calls[i].pc = "return_unsupported"
    /\ Advance(i, Step(Now, calls[i]))

ReadSource(i) ==
    /\ calls[i].pc = "read"
    /\ Advance(i, Step(Now, calls[i]))

ParseSource(i) ==
    /\ calls[i].pc = "parse"
    /\ Advance(i, Step(Now, calls[i]))

CheckComplexity(i) ==
    /\ calls[i].pc = "check_complexity"
    /\ Advance(i, Step(Now, calls[i]))

CalculateMetrics(i) ==
    /\ calls[i].pc = "calculate_metrics"
    /\ Advance(i, Step(Now, calls[i]))

CheckUnusedVariables(i) ==
    /\ calls[i].pc = "check_unused"
    /\ Advance(i, Step(Now, calls[i]))

EnsureReports(i) ==
    /\ calls[i].pc = "ensure"
    /\ Advance(i, Step(Now, calls[i]))

BasicMetrics(i) ==
    /\ calls[i].pc = "basic_metrics"
    /\ Advance(i, Step(Now, calls[i]))

LanguagePatterns(i) ==
    /\ calls[i].pc = "patterns"
    /\ Advance(i, Step(Now, calls[i]))

EstimateTime(i) ==
    /\ calls[i].pc = "estimate_time"
    /\ Advance(i, Step(Now, calls[i]))

EstimateSpace(i) ==
    /\ calls[i].pc = "estimate_space"
    /\ Advance(i, Step(Now, calls[i]))

HandleException(i) ==
    /\ calls[i].pc = "except"
    /\ Advance(i, Step(Now, calls[i]))

FilterNonEmpty(i) ==
    /\ calls[i].pc = "non_empty"
    /\ Advance(i, Step(Now, calls[i]))

ReturnResult(i) ==
    /\ calls[i].pc = "return"
    /\ Advance(i, Step(Now, calls[i]))


InitConc ==
    /\ AnalyzerInit
    /\ \E f1, f2 \in Files : f1 # f2 /\ calls = <<Entry(f1), Entry(f2)>>
    /\ LatticeIdle
    /\ TreeIdle
    /\ TextIdle
    /\ ScoreIdle

NextConc ==
    \E i \in Workers :
        \/ ClearIssues(i)
        \/ ResetMetrics(i)
        \/ LookUpLanguage(i)
        \/ ReturnUnsupported(i)
        \/ ReadSource(i)
        \/ ParseSource(i)
        \/ CheckComplexity(i)
        \/ CalculateMetrics(i)
        \/ CheckUnusedVariables(i)
        \/ EnsureReports(i)
        \/ BasicMetrics(i)
        \/ LanguagePatterns(i)
        \/ EstimateTime(i)
        \/ EstimateSpace(i)
        \/ HandleException(i)
        \/ FilterNonEmpty(i)
        \/ ReturnResult(i)

SpecConc == InitConc /\ [][NextConc]_vars

(***************************************************************************)
(* SpecLattice: _upgrade_complexity and _combine_complexities applied to   *)
(* a pair of tokens, in both orders.                                       *)
(***************************************************************************)
\* the eight classes, the token 'O(k)' of the method table (lines 627, 637)
\* and one more token outside the order
Tokens == Classes \cup {"O(k)", "O(2^n)"}

Upgrade ==
    /\ upgraded = <<>>
    /\ upgraded' = <<upgrade_complexity(c1, c2), upgrade_complexity(c2, c1)>>
    /\ UNCHANGED <<analyzer_vars, returned, directory, calls, c1, c2, combined, tree_vars, text_vars, score_vars>>

Combine ==
    /\ combined = <<>>
    /\ combined' = <<combine_complexities(c1, c2), combine_complexities(c2, c1)>>
    /\ UNCHANGED <<analyzer_vars, returned, directory, calls, c1, c2, upgraded, tree_vars, text_vars, score_vars>>

InitLattice ==
    /\ AnalyzerInit
    /\ calls = <<>>
    /\ c1 \in Tokens
    /\ c2 \in Tokens
    /\ upgraded = <<>>
    /\ combined = <<>>
    /\ TreeIdle
    /\ TextIdle
    /\ ScoreIdle

NextLattice == Upgrade \/ Combine

SpecLattice == InitLattice /\ [][NextLattice]_vars

(***************************************************************************)
(* SpecTree: the two tree-based passes applied to a parsed module.         *)
(***************************************************************************)
MaxBodyLen == 2

MaxTop == 2

\* the sequences over the set S of length lo to hi
SeqsOf(S, lo, hi) == UNION { [1..k -> S] : k \in lo..hi }

LoopHeaders == {"for_in", "for_range", "while_lt", "while_ne", "while_name"}

\* for x in a: | for i in range(n): | while i < n: | while i != n: | while flag:
Loop(header, body) ==
    CASE header = "for_in"     -> For(Store("x"), Load("a"), body, <<>>)
      [] header = "for_range"  -> For(Store("i"), Call(Load("range"), <<Load("n")>>), body, <<>>)
      [] header = "while_lt"   -> While(Compare(Load("i"), <<"Lt">>, <<Load("n")>>), body, <<>>)
      [] header = "while_ne"   -> While(Compare(Load("i"), <<"NotEq">>, <<Load("n")>>), body, <<>>)
      [] header = "while_name" -> While(Load("flag"), body, <<>>)

\* i += 1
Increment == AugAssign(Store("i"), "Add", Constant(1))

\* i = i + 1
IncrementAssign == Assign(<<Store("i")>>, BinOp(Load("i"), "Add", Constant(1)))

\* x = x * y
Multiply == Assign(<<Store("x")>>, BinOp(Load("x"), "Mult", Load("y")))

\* i //= 2
Halve == AugAssign(Store("i"), "FloorDiv", Constant(2))

\* r.append(x)
AppendCall == Expr(Call(Attribute(Load("r"), "append"), <<Load("x")>>))

\* y = sorted(a)
SortedCall == Assign(<<Store("y")>>, Call(Load("sorted"), <<Load("a")>>))

Statements == {Pass, Increment, IncrementAssign, Multiply, Halve, AppendCall, SortedCall}

\* def f(a, n):
\*     <one loop>
LoopModules ==
    { Module(<< FunctionDef("f", arguments(<<arg("a"), arg("n")>>), <<Loop(header, body)>>) >>) :
        header \in LoopHeaders, body \in SeqsOf(Statements, 1, MaxBodyLen) }

\* def f(a):
\*     for x in a:
\*         pass
DefLinear ==
    FunctionDef("f", arguments(<<arg("a")>>), << Loop("for_in", <<Pass>>) >>)

\* def f(a):
\*     for x in a:
\*         for x in a:
\*             r.append(x)
DefQuadratic ==
    FunctionDef("f", arguments(<<arg("a")>>),
        << Loop("for_in", << Loop("for_in", <<AppendCall>>) >>) >>)

\* def g(n):
\*     return g(n - 1)
DefRecursive ==
    FunctionDef("g", arguments(<<arg("n")>>),
        << Return(Call(Load("g"), <<BinOp(Load("n"), "Sub", Constant(1))>>)) >>)

\* def h(n):
\*     return n
DefConstant == FunctionDef("h", arguments(<<arg("n")>>), << Return(Load("n")) >>)

\* for x in a:
\*     r.append(x)
TopLoop == Loop("for_in", <<AppendCall>>)

\* data = []
TopAssign == Assign(<<Store("data")>>, ListNode(<<>>))

\* def g(n):
\*     return n
DefShadow == FunctionDef("g", arguments(<<arg("n")>>), << Return(Load("n")) >>)

TopItems ==
    {DefLinear, DefQuadratic, DefRecursive, DefConstant, DefShadow, TopLoop, TopAssign}

MixedModules == { Module(body) : body \in SeqsOf(TopItems, 0, MaxTop) }

\* x op= k
HalveAug(op, k) == AugAssign(Store("x"), op, Constant(k))

\* x = x op k
HalveAssign(op, k) == Assign(<<Store("x")>>, BinOp(Load("x"), op, Constant(k)))

\* mid = (lo + hi) // 2
Midpoint ==
    Assign(<<Store("mid")>>,
           BinOp(BinOp(Load("lo"), "Add", Load("hi")), "FloorDiv", Constant(2)))

\* x //= 2 | x /= 2 | x >>= 1 | x = x // 2 | x = x / 2 | x = x >> 1 | the midpoint
HalvingStatements ==
    { HalveAug("FloorDiv", 2), HalveAug("Div", 2), HalveAug("RShift", 1),
      HalveAssign("FloorDiv", 2), HalveAssign("Div", 2), HalveAssign("RShift", 1),
      Midpoint }

\* def f(a, n):
\*     <loop header>
\*         <halving statement>
HalvingModules ==
    { Module(<< FunctionDef("f", arguments(<<arg("a"), arg("n")>>),
                  <<Loop(header, <<halving>>)>>) >>) :
        header \in LoopHeaders, halving \in HalvingStatements }

\* the statements of the body of an inner loop
InnerStatements == {Pass, Increment, IncrementAssign, Multiply}

\* def f(a, n):
\*     <loop header>
\*         <halving statement>          (before or after the inner loop)
\*         <inner loop header>
\*             <inner statement>
LoopInHalvingModules ==
    { Module(<< FunctionDef("f", arguments(<<arg("a"), arg("n")>>),
                  << Loop(header,
                          IF first THEN <<halving, Loop(inner, <<stmt>>)>>
                                   ELSE <<Loop(inner, <<stmt>>), halving>>) >>) >>) :
        header \in LoopHeaders, halving \in HalvingStatements, inner \in LoopHeaders,
        stmt \in InnerStatements, first \in BOOLEAN }

\* def f(a, n):
\*     for ... :
\*         <inner loop header>
\*             <halving statement>
HalvingInLoopModules ==
    { Module(<< FunctionDef("f", arguments(<<arg("a"), arg("n")>>),
                  << Loop(header, << Loop(inner, <<halving>>) >>) >>) >>) :
        header \in {"for_in", "for_range"}, inner \in LoopHeaders,
        halving \in HalvingStatements }

\* the largest number of self-calls written in a recursive function
MaxSelfCalls == 3

\* r(a, n - 1)
SelfCall ==
    Expr(Call(Load("r"), <<Load("a"), BinOp(Load("n"), "Sub", Constant(1))>>))

\* r(a[:mid], n - 1)
SelfCallOnSlice ==
    Expr(Call(Load("r"),
        <<Subscript(Load("a"), Slice(NoneNode, Load("mid"))),
          BinOp(Load("n"), "Sub", Constant(1))>>))

\* mid = n // 2
HalfOfN == Assign(<<Store("mid")>>, BinOp(Load("n"), "FloorDiv", Constant(2)))

\* nothing, a loop, a loop in a loop, or a call to sorted
RecursiveExtras ==
    { <<>>,
      << Loop("for_in", <<Pass>>) >>,
      << Loop("for_in", << Loop("for_in", <<Pass>>) >>) >>,
      << SortedCall >> }

\* nothing, b = [1], b = [], or b = [x for x in a]
Containers ==
    { <<>>,
      << Assign(<<Store("b")>>, ListNode(<<Constant(1)>>)) >>,
      << Assign(<<Store("b")>>, ListNode(<<>>)) >>,
      << Assign(<<Store("b")>>,
            ListComp(Load("x"), <<comprehension(Store("x"), Load("a"))>>)) >> }

RecursiveBody(c, halves, slices, extra, container) ==
    (IF halves THEN <<HalfOfN>> ELSE <<>>) \o extra \o container
        \o [i \in 1..c |-> IF slices /\ i = 1 THEN SelfCallOnSlice ELSE SelfCall]

\* def r(a, n):
\*     mid = n // 2            (or not)
\*     <extra> <container>
\*     r(a[:mid], n - 1)       (or r(a, n - 1))
\*     r(a, n - 1) ...         (c self-calls in all)
RecursiveModules ==
    { Module(<< FunctionDef("r", arguments(<<arg("a"), arg("n")>>),
                    RecursiveBody(c, halves, slices, extra, container)) >>) :
        c \in 1..MaxSelfCalls, halves \in BOOLEAN, slices \in BOOLEAN,
        extra \in RecursiveExtras, container \in Containers }

\* [1], [1, 2], [[]], {1: 2}, {1}, [], {}, [y for y in a], {y for y in a},
\* {y: y for y in a}
AssignedValues ==
    { ListNode(<<Constant(1)>>),
      ListNode(<<Constant(1), Constant(2)>>),
      ListNode(<<ListNode(<<>>)>>),
      DictNode(<<Constant(1)>>, <<Constant(2)>>),
      SetNode(<<Constant(1)>>),
      ListNode(<<>>),
      DictNode(<<>>, <<>>),
      ListComp(Load("y"), <<comprehension(Store("y"), Load("a"))>>),
      SetComp(Load("y"), <<comprehension(Store("y"), Load("a"))>>),
      DictComp(Load("y"), Load("y"), <<comprehension(Store("y"), Load("a"))>>) }

\* x = <value> and x = z = <value>
AssignTargets == { <<Store("x")>>, <<Store("x"), Store("z")>> }

\* def f(a):
\*     x = <value>
AssignModules ==
    { Module(<< FunctionDef("f", arguments(<<arg("a")>>),
                    << Assign(targets, value) >>) >>) :
        targets \in AssignTargets, value \in AssignedValues }

\* a.extend(b), a.update(b)
BulkUpdate(method) == Call(Attribute(Load("a"), method), <<Load("b")>>)

\* the call as a statement and as the value of y = ...
BulkUpdateStatements ==
    UNION { { Expr(BulkUpdate(method)), Assign(<<Store("y")>>, BulkUpdate(method)) } :
        method \in {"extend", "update"} }

\* def f(a, b):
\*     pass                    (or not)
\*     a.extend(b)
BulkUpdateModules ==
    { Module(<< FunctionDef("f", arguments(<<arg("a"), arg("b")>>), pre \o <<stmt>>) >>) :
        pre \in { <<>>, <<Pass>> }, stmt \in BulkUpdateStatements }

\* for x in a | for i in range(n)
Generators ==
    { comprehension(Store("x"), Load("a")),
      comprehension(Store("i"), Call(Load("range"), <<Load("n")>>)) }

\* [i * 2 for ...], {i * 2 for ...}, {i: i * 2 for ...}
Comprehensions ==
    UNION { { ListComp(BinOp(Load("i"), "Mult", Constant(2)), <<gen>>),
              SetComp(BinOp(Load("i"), "Mult", Constant(2)), <<gen>>),
              DictComp(Load("i"), BinOp(Load("i"), "Mult", Constant(2)), <<gen>>) } :
            gen \in Generators }

\* def f(a, n):
\*     return [i * 2 for i in range(n)]      (or y = [i * 2 for i in range(n)])
ComprehensionModules ==
    { Module(<< FunctionDef("f", arguments(<<arg("a"), arg("n")>>), <<stmt>>) >>) :
        stmt \in UNION { { Return(comp), Assign(<<Store("y")>>, comp) } :
                          comp \in Comprehensions } }

\* the deepest loop nest written
MaxNest == 4

\* the headers the logarithmic-loop detector does not flag by themselves
NestHeaders == {"for_in", "for_range", "while_name"}

\* the loops of headers[k], headers[k + 1], ... one inside the other, around inner
RECURSIVE Nest(_, _, _)
Nest(headers, k, inner) ==
    IF k = Len(headers) THEN Loop(headers[k], <<inner>>)
    ELSE Loop(headers[k], << Nest(headers, k + 1, inner) >>)

Nests ==
    { Nest(headers, 1, inner) :
        headers \in SeqsOf(NestHeaders, 1, MaxNest), inner \in {Pass, Increment} }

\* for x in a: ... d times over, around pass
ForNest(d) == Nest([k \in 1..d |-> "for_in"], 1, Pass)

\* def f(a, n):
\*     <nest>
\* and
\* def f(a, n):
\*     <nest of for loops>
\*     <nest of for loops>
NestModules ==
    { Module(<< FunctionDef("f", arguments(<<arg("a"), arg("n")>>), <<nest>>) >>) :
        nest \in Nests }
    \cup
    { Module(<< FunctionDef("f", arguments(<<arg("a"), arg("n")>>),
                    << ForNest(d1), ForNest(d2) >>) >>) :
        d1 \in 1..MaxNest, d2 \in 1..MaxNest }

\* def f(a, n):
\*     for x in a:             (one inside the other, 1 to MaxNest times)
\*         y = <value>
AssignInLoopModules ==
    { Module(<< FunctionDef("f", arguments(<<arg("a"), arg("n")>>),
                    << Nest([k \in 1..d |-> "for_in"], 1,
                           Assign(<<Store("y")>>, value)) >>) >>) :
        d \in 1..MaxNest, value \in AssignedValues }

\* the methods that grow the object they are called on
AccumulatingMethods == {"append", "extend", "add", "update", "insert"}

\* def f(a, n):
\*     for x in a:             (one inside the other, 1 to MaxNest times)
\*         r.append(x)         (or extend, add, update, insert)
AccumulateModules ==
    { Module(<< FunctionDef("f", arguments(<<arg("a"), arg("n")>>),
                    << Nest([k \in 1..d |-> "for_in"], 1,
                           Expr(Call(Attribute(Load("r"), method), <<Load("x")>>))) >>) >>) :
        d \in 1..MaxNest, method \in AccumulatingMethods }

\* sorted(a), sum(a), a.index(x), len(a)
CostlyCalls ==
    { Call(Load("sorted"), <<Load("a")>>),
      Call(Load("sum"), <<Load("a")>>),
      Call(Attribute(Load("a"), "index"), <<Load("x")>>),
      Call(Load("len"), <<Load("a")>>) }

\* y = <call> | <call> | return <call> | print(<call>) | return len(<call>)
\* | if <call>: pass
CallStatements ==
    UNION { { Assign(<<Store("y")>>, call),
              Expr(call),
              Return(call),
              Expr(Call(Load("print"), <<call>>)),
              Return(Call(Load("len"), <<call>>)),
              If(call, <<Pass>>, <<>>) } :
            call \in CostlyCalls }

\* def f(a, x):
\*     <call statement>
CallModules ==
    { Module(<< FunctionDef("f", arguments(<<arg("a"), arg("x")>>), <<stmt>>) >>) :
        stmt \in CallStatements }

Trees ==
    LoopModules \cup MixedModules \cup HalvingModules \cup LoopInHalvingModules
        \cup HalvingInLoopModules \cup RecursiveModules \cup AssignModules
        \cup BulkUpdateModules \cup ComprehensionModules
        \cup NestModules \cup AssignInLoopModules
        \cup AccumulateModules \cup CallModules

\* metrics['time_complexity'] = self._calculate_time_complexity(tree)
CalculateTime ==
    /\ time_complexity = <<>>
    /\ time_complexity' = <<calculate_time_complexity(tree)>>
    /\ UNCHANGED <<analyzer_vars, returned, directory, calls, lattice_vars,
                   tree, space_complexity, text_vars, score_vars>>

\* metrics['space_complexity'] = self._calculate_space_complexity(tree)
CalculateSpace ==
    /\ space_complexity = <<>>
    /\ space_complexity' = <<calculate_space_complexity(tree)>>
    /\ UNCHANGED <<analyzer_vars, returned, directory, calls, lattice_vars,
                   tree, time_complexity, text_vars, score_vars>>

InitTree ==
    /\ AnalyzerInit
    /\ calls = <<>>
    /\ LatticeIdle
    /\ tree \in Trees
    /\ time_complexity = <<>>
    /\ space_complexity = <<>>
    /\ TextIdle
    /\ ScoreIdle

NextTree == CalculateTime \/ CalculateSpace

SpecTree == InitTree /\ [][NextTree]_vars

(***************************************************************************)
(* SpecText: the two text passes run on one source text, line by line, as  *)
(* _analyze_java, _analyze_c and _analyze_cpp run them.                     *)
(***************************************************************************)
MaxLines == 3

\* the lines of the texts: a line opens a loop or not, ends with a closing
\* brace or not, allocates or not
\*   for (i = a; i < n; i++) {     for (i = a; i < n; i++) { p = new Foo();
\*   for (i = a; i < n; i++) { }   for (i = a; i < n; i++) { p = new Foo(); }
\*   }                             p = new Foo(); }
\*   x = y;                        p = new Foo();
TextLines ==
    { Line(loop, closes, alloc, FALSE) :
        loop \in BOOLEAN, closes \in BOOLEAN, alloc \in BOOLEAN }

\* the number of lines that allocate
Allocations(lines) == Cardinality({ k \in 1..Len(lines) : lines[k].alloc })

\* the search for a recursive pattern (line 440) finds a word followed by
\* a parenthesis, an opening brace and, before any closing brace, the same
\* word and a parenthesis: in these texts, a loop header inside the block of
\* a loop header
LoopInsideLoop(lines) ==
    \E i, j \in 1..Len(lines) :
        /\ i < j
        /\ lines[i].loop
        /\ lines[j].loop
        /\ \A k \in i..(j - 1) : ~lines[k].closes

\* what the searches in the whole text find: a call sort(a) on the first
\* line or nowhere, and the allocations written p = malloc(n) or p = new Foo()
TextFacts(lines, sort_call, with_malloc) ==
    [NoFacts EXCEPT !.sort_call = sort_call,
                    !.array_alloc = with_malloc /\ Allocations(lines) > 0,
                    !.recursive_pattern = LoopInsideLoop(lines),
                    !.malloc_count = IF with_malloc THEN Allocations(lines) ELSE 0]

Texts ==
    { [lines |-> t[1], facts |-> TextFacts(t[1], t[2], t[3])] :
        t \in { u \in SeqsOf(TextLines, 0, MaxLines) \X BOOLEAN \X BOOLEAN :
                  u[2] => Len(u[1]) > 0 } }

\* for line in lines: ... (lines 189-194)
ScanTimeLine ==
    /\ scan.pc = "time"
    /\ scan.i <= Len(scan.code.lines)
    /\ scan' = [scan EXCEPT
           !.i = scan.i + 1,
           !.current_depth =
               time_scan_line(scan.code.lines[scan.i], scan.current_depth,
                   scan.max_depth)[1],
           !.max_depth =
               time_scan_line(scan.code.lines[scan.i], scan.current_depth,
                   scan.max_depth)[2]]
    /\ UNCHANGED <<analyzer_vars, returned, directory, calls, lattice_vars, tree_vars, score_vars>>

\* the end of _estimate_complexity_from_text (lines 196-210) and the start
\* of _estimate_space_complexity_from_text (lines 428-454)
ReportTime ==
    /\ scan.pc = "time"
    /\ scan.i > Len(scan.code.lines)
    /\ scan' = [scan EXCEPT
           !.time = <<text_time_report(scan.max_depth, scan.code.facts.sort_call)>>,
           !.pc = "space",
           !.i = 1,
           !.space_complexity = space_before_scan(scan.code.facts)]
    /\ UNCHANGED <<analyzer_vars, returned, directory, calls, lattice_vars, tree_vars, score_vars>>

\* for line in lines: ... (lines 455-465)
ScanSpaceLine ==
    /\ scan.pc = "space"
    /\ scan.i <= Len(scan.code.lines)
    /\ scan' = [scan EXCEPT
           !.i = scan.i + 1,
           !.in_loop =
               space_scan_line(scan.code.lines[scan.i], scan.in_loop,
                   scan.loop_depth, scan.space_complexity)[1],
           !.loop_depth =
               space_scan_line(scan.code.lines[scan.i], scan.in_loop,
                   scan.loop_depth, scan.space_complexity)[2],
           !.space_complexity =
               space_scan_line(scan.code.lines[scan.i], scan.in_loop,
                   scan.loop_depth, scan.space_complexity)[3]]
    /\ UNCHANGED <<analyzer_vars, returned, directory, calls, lattice_vars, tree_vars, score_vars>>

\* self.metrics['space_complexity'] = {...} (line 467)
ReportSpace ==
    /\ scan.pc = "space"
    /\ scan.i > Len(scan.code.lines)
    /\ scan' = [scan EXCEPT
           !.space = <<text_space_report(scan.space_complexity)>>,
           !.pc = "done"]
    /\ UNCHANGED <<analyzer_vars, returned, directory, calls, lattice_vars, tree_vars, score_vars>>

InitText ==
    /\ AnalyzerInit
    /\ calls = <<>>
    /\ LatticeIdle
    /\ TreeIdle
    /\ \E code \in Texts : scan = StartOfScan(code)
    /\ ScoreIdle

NextText == ScanTimeLine \/ ReportTime \/ ScanSpaceLine \/ ReportSpace

SpecText == InitText /\ [][NextText]_vars

(***************************************************************************)
(* SpecScore: the functions that read the classes of a report.             *)
(***************************************************************************)

MaxIssues == 2

MaxComments == 2

LinesOfCode == {10, 20}

Smaller(a, b) == IF a <= b THEN a ELSE b

Larger(a, b) == IF a >= b THEN a ELSE b

\* complexity_penalties of _calculate_quality_score (lines 757-760)
complexity_penalties ==
    << <<"O(1)", 0>>, <<"O(log n)", 2>>, <<"O(n)", 5>>,
       <<"O(n log n)", 10>>, <<"O(n^2)", 20>>, <<"O(n^3+)", 30>>,
       <<"O(n!)", 40>> >>

\* complexity_scores of _calculate_complexity_score (lines 814-817)
complexity_scores ==
    << <<"O(1)", 10>>, <<"O(log n)", 20>>, <<"O(n)", 30>>,
       <<"O(n log n)", 50>>, <<"O(n^2)", 70>>, <<"O(n^3+)", 90>>,
       <<"O(n!)", 100>> >>

\* mapping of ComplexityVisualizer._complexity_to_numeric (lines 315-323)
numeric_mapping ==
    << <<"O(1)", 1>>, <<"O(log n)", 2>>, <<"O(n)", 3>>,
       <<"O(n log n)", 4>>, <<"O(n^2)", 5>>, <<"O(n^3+)", 6>>,
       <<"O(n!)", 7>> >>

\* complexity_penalties.get(comp, 0)
penalty_of(comp) == DictGet(complexity_penalties, comp, 0)

\* complexity_scores.get(comp, 10)
score_of(comp) == DictGet(complexity_scores, comp, 10)

\* _calculate_quality_score. The score is a float; it is kept here as the
\* exact fraction num / den with den = lines_of_code, the only divisor.
calculate_quality_score(metrics, issue_count) ==
    [num |-> Larger(0, Smaller(100 * metrics.lines_of_code,
                 (100 - Smaller(50, issue_count * 5)
                      - penalty_of(metrics.time_complexity)
                      - penalty_of(metrics.space_complexity))
                     * metrics.lines_of_code
                 + Smaller(10 * metrics.lines_of_code,
                           metrics.comment_lines * 50))),
     den |-> metrics.lines_of_code]

\* _calculate_complexity_score: (time_score + space_score) / 2 as a fraction
calculate_complexity_score(metrics) ==
    [num |-> score_of(metrics.time_complexity) + score_of(metrics.space_complexity),
     den |-> 2]

\* ComplexityVisualizer._complexity_to_numeric
complexity_to_numeric(complexity) == DictGet(numeric_mapping, complexity, 1)

\* the classes the time passes report as 'overall': one per loop depth
\* (_complexity_at_depth), O(log n) for a halving loop, O(n log n) for a sort
ReportedTimeClasses ==
    { complexity_at_depth(d) : d \in 0..MaxNest } \cup {"O(log n)", "O(n log n)"}

\* the classes the space passes report as 'overall': O(1), one per loop
\* depth (_space_at_depth), O(log n) for the stack of a halving recursion
ReportedSpaceClasses ==
    {"O(1)", "O(log n)"} \cup { space_at_depth(d) : d \in 1..MaxNest }

ReportedMetrics ==
    [time_complexity : ReportedTimeClasses,
     space_complexity : ReportedSpaceClasses,
     lines_of_code : LinesOfCode,
     comment_lines : 0..MaxComments]

\* 'code_quality_score': self._calculate_quality_score(metrics, issues)
\* (line 740) and 'quality_score' (line 803)
CalculateQualityScore ==
    /\ scores.quality_score = <<>>
    /\ scores' = [scores EXCEPT !.quality_score =
           <<calculate_quality_score(scores.metrics, scores.issue_count)>>]
    /\ UNCHANGED <<analyzer_vars, returned, directory, calls, lattice_vars, tree_vars, text_vars>>

\* 'complexity_score': self._calculate_complexity_score(metrics) (line 804)
CalculateComplexityScore ==
    /\ scores.complexity_score = <<>>
    /\ scores' = [scores EXCEPT !.complexity_score =
           <<calculate_complexity_score(scores.metrics)>>]
    /\ UNCHANGED <<analyzer_vars, returned, directory, calls, lattice_vars, tree_vars, text_vars>>

\* the chart values of one result in create_complexity_trend_chart
\* (complexity_visualizer.py, lines 119-123)
ComplexityToNumeric ==
    /\ scores.numeric = <<>>
    /\ scores' = [scores EXCEPT !.numeric =
           <<[time  |-> complexity_to_numeric(scores.metrics.time_complexity),
              space |-> complexity_to_numeric(scores.metrics.space_complexity)]>>]
    /\ UNCHANGED <<analyzer_vars, returned, directory, calls, lattice_vars, tree_vars, text_vars>>

InitScore ==
    /\ AnalyzerInit
    /\ calls = <<>>
    /\ LatticeIdle
    /\ TreeIdle
    /\ TextIdle
    /\ \E metrics \in ReportedMetrics, issue_count \in 0..MaxIssues :
           scores = StartOfScores(metrics, issue_count)

NextScore == CalculateQualityScore \/ CalculateComplexityScore \/ ComplexityToNumeric

SpecScore == InitScore /\ [][NextScore]_vars

(***************************************************************************)
(* Properties of analyze_file and analyze_directory.                       *)
(***************************************************************************)

\* what analyze_file(file_path) returns on an analyzer of its own
Alone(file_path) == Outcome(analyze_file(NewAnalyzer, file_path)).shown

IsResult(r) == r.result.kind = "dict"

\* metrics.get(key), as a sequence of at most one report
ReportOf(metrics, key) ==
    IF DictHas(metrics, key) THEN <<DictGet(metrics, key, NotSet)>> ELSE <<>>

\* C1: a result that analyze_file has returned shows, after any later calls
\* of analyze_file, the issues and the metrics it showed when it was returned.
C1_ReturnedResultsNeverChange ==
    \A i \in 1..Len(returned) :
        IsResult(returned[i]) =>
            /\ IssuesOf(Now, returned[i].result) = returned[i].shown.issues
            /\ MetricsOf(Now, returned[i].result) = returned[i].shown.metrics

\* C2: with two calls interleaved on one analyzer, each call returns the
\* issues and metrics it returns when it runs alone.
C2_InterleavedCallsReturnAsAlone ==
    \A i \in 1..Len(returned) :
        IsResult(returned[i]) =>
            /\ returned[i].shown.issues = Alone(returned[i].result.file_path).issues
            /\ returned[i].shown.metrics = Alone(returned[i].result.file_path).metrics

\* C3: two calls of analyze_file on the same file, whatever calls lie before
\* or between them, return the same time_complexity report, the same
\* space_complexity report and the same issues.
C3_SameFileSameReports ==
    \A i, j \in 1..Len(returned) :
        (/\ i < j
         /\ IsResult(returned[i])
         /\ IsResult(returned[j])
         /\ returned[i].result.file_path = returned[j].result.file_path)
        => /\ ReportOf(returned[i].shown.metrics, "time_complexity")
                = ReportOf(returned[j].shown.metrics, "time_complexity")
           /\ ReportOf(returned[i].shown.metrics, "space_complexity")
                = ReportOf(returned[j].shown.metrics, "space_complexity")
           /\ returned[i].shown.issues = returned[j].shown.issues

\* a file analyzed twice with another file in between, reports present
C3_Witness ==
    /\ Len(returned) = 3
    /\ returned[1].result.file_path = returned[3].result.file_path
    /\ returned[2].result.file_path # returned[1].result.file_path
    /\ ReportOf(returned[3].shown.metrics, "time_complexity") # <<>>
    /\ returned[3].shown.issues # <<>>

SupportedPath(file_path) == DictHas(language_map, Lower(file_path.ext))

\* the file cannot be read or does not parse
Fails(file_path) ==
    \/ ReadFile(file_path).kind # "ok"
    \/ /\ DictGet(language_map, Lower(file_path.ext), "None") = "python"
       /\ ReadFile(file_path).code.parse.kind # "Module"

CarriesError(issues) ==
    DictHas(issues, "Syntax Errors") \/ DictHas(issues, "General Errors")

\* C4: analyze_directory returns one result per file with a supported
\* extension, in the order of the listing; the result of a file that fails
\* carries an error issue, and every result is the one the file gets alone.
C4_DirectoryFanOut ==
    directory.done =>
        /\ ~directory.raised
        /\ Len(directory.results) = Cardinality(Supported(directory.files))
        /\ \A k \in 1..Len(directory.results) :
              LET file_path == SelectSeq(directory.files, SupportedPath)[k]
                  shown     == Shown(Now, directory.results[k])
              IN  /\ shown.file_path = file_path
                  /\ shown.issues = Alone(file_path).issues
                  /\ shown.metrics = Alone(file_path).metrics
                  /\ Fails(file_path) => CarriesError(shown.issues)

\* a listing of two supported files of which the first fails and the second
\* does not
C4_Witness ==
    /\ directory.done
    /\ Len(directory.results) = 2
    /\ Fails(directory.results[1].file_path)
    /\ ~Fails(directory.results[2].file_path)
    /\ MetricsOf(Now, directory.results[2]) # <<>>

IsSyntaxError(file_path) ==
    /\ DictGet(language_map, Lower(file_path.ext), "None") = "python"
    /\ ReadFile(file_path).kind = "ok"
    /\ ReadFile(file_path).code.parse.kind = "SyntaxError"

Reports == time_complexity \o space_complexity

\* the place of a class in the fixed order
Rank(c) == CHOOSE i \in 1..Len(order) : order[i] = c

IsMaximumOf(overall, values) ==
    /\ InSeq(overall, values)
    /\ \A i \in 1..Len(values) : values[i] \in Classes /\ Rank(values[i]) <= Rank(overall)

\* C6: in every report of the tree-based passes 'overall' is the maximum,
\* in the fixed order, of the values of 'functions', the '<module-level>'
\* entry included; with an empty 'functions' map 'overall' is O(1).
C6_OverallIsMaximum ==
    \A i \in 1..Len(Reports) :
        IF Reports[i].functions = <<>>
        THEN Reports[i].overall = "O(1)"
        ELSE IsMaximumOf(Reports[i].overall, DictValues(Reports[i].functions))

\* both reports of a module in which the last entry of 'functions' is not
\* the highest one
C6_Witness ==
    /\ Len(Reports) = 2
    /\ Len(time_complexity[1].functions) >= 2
    /\ time_complexity[1].functions[Len(time_complexity[1].functions)][2]
         # time_complexity[1].overall
    /\ DictHas(space_complexity[1].functions, "<module-level>")

OnlyFunctionDefs(module) ==
    \A i \in 1..Len(module.body) : module.body[i].type = "FunctionDef"

\* C7: the '<module-level>' entry of a report comes from the statements
\* outside every function definition: a module whose top level holds only
\* function definitions has no such entry, and an entry that is present is
\* not O(1).
C7_ModuleLevelOnlyOutsideFunctions ==
    \A i \in 1..Len(Reports) :
        /\ OnlyFunctionDefs(tree) => ~DictHas(Reports[i].functions, "<module-level>")
        /\ DictHas(Reports[i].functions, "<module-level>")
             => DictGet(Reports[i].functions, "<module-level>", "O(1)") # "O(1)"

\* the module is one function whose body is one loop
IsSingleLoopFunction(module) ==
    /\ Len(module.body) = 1
    /\ module.body[1].type = "FunctionDef"
    /\ Len(module.body[1].body) = 1
    /\ module.body[1].body[1].type \in {"For", "While"}

\* the statement divides or shifts a variable
Halves(stmt) ==
    \/ stmt.type = "AugAssign" /\ stmt.op \in {"FloorDiv", "Div", "RShift"}
    \/ /\ stmt.type = "Assign"
       /\ stmt.value.type = "BinOp"
       /\ stmt.value.op \in {"FloorDiv", "Div", "RShift"}

HasCall(stmt) == \E k \in 1..Len(walk(stmt)) : walk(stmt)[k].type = "Call"

PlainLoopBody(body) ==
    \A k \in 1..Len(body) : ~Halves(body[k]) /\ ~HasCall(body[k])

\* C10: a non-recursive function whose body is one loop that neither halves
\* its control variable nor holds a call in its body is O(n) in the time
\* report, whatever the loop guard and the statements of the body.
C10_SingleLoopIsLinear ==
    (/\ time_complexity # <<>>
     /\ IsSingleLoopFunction(tree)
     /\ PlainLoopBody(tree.body[1].body[1].body))
    => DictGet(time_complexity[1].functions, tree.body[1].name, "None") = "O(n)"

(***************************************************************************)
(* Properties of the lattice operations.                                   *)
(***************************************************************************)

NotLowerOf(a, b) == IF Rank(a) >= Rank(b) THEN a ELSE b

\* C8: for every pair (a, b) of the eight classes _upgrade_complexity(a, b)
\* equals _upgrade_complexity(b, a) and is the one of a, b that is not lower
\* in the fixed order.
C8_UpgradeCommutesOnClasses ==
    (upgraded # <<>> /\ c1 \in Classes /\ c2 \in Classes) =>
        /\ upgraded[1] = upgraded[2]
        /\ upgraded[1] = NotLowerOf(c1, c2)

\* both orders applied to two different classes, the higher one given second
C8_Witness ==
    /\ upgraded # <<>>
    /\ c1 = "O(n)"
    /\ c2 = "O(n log n)"
    /\ upgraded = <<"O(n log n)", "O(n log n)">>

\* an unrecognized token counts as O(1)
Normal(c) == IF c \in Classes THEN c ELSE "O(1)"

\* C9: for every pair of tokens, recognized or not, _upgrade_complexity and
\* _combine_complexities return one of the eight classes, an unrecognized
\* token counting as O(1): with one unrecognized argument the result is the
\* other argument, with two it is O(1).
C9_UnrecognizedCountsAsConstant ==
    /\ upgraded # <<>> =>
          /\ upgraded[1] \in Classes
          /\ (c1 \notin Classes \/ c2 \notin Classes) =>
                upgraded[1] = NotLowerOf(Normal(c1), Normal(c2))
    /\ combined # <<>> =>
          /\ combined[1] \in Classes
          /\ (c1 \notin Classes \/ c2 \notin Classes) =>
                combined[1] = NotLowerOf(Normal(c1), Normal(c2))

(***************************************************************************)
(* Properties of the loop rules of the time pass.                          *)
(***************************************************************************)

\* the statement halves a variable: a division by 2 or a right shift by 1,
\* written as an augmented update or as a plain assignment
HalvesByTwo(stmt) ==
    \/ /\ stmt.type = "AugAssign"
       /\ stmt.value.type = "Constant"
       /\ \/ stmt.op \in {"FloorDiv", "Div"} /\ stmt.value.value = 2
          \/ stmt.op = "RShift" /\ stmt.value.value = 1
    \/ /\ stmt.type = "Assign"
       /\ stmt.value.type = "BinOp"
       /\ stmt.value.right.type = "Constant"
       /\ \/ stmt.value.op \in {"FloorDiv", "Div"} /\ stmt.value.right.value = 2
          \/ stmt.value.op = "RShift" /\ stmt.value.right.value = 1

IsLoop(stmt) == stmt.type \in {"For", "While"}

\* the body halves a variable and holds, besides, neither a loop nor a call
HalvingLoopBody(body) ==
    /\ \E k \in 1..Len(body) : HalvesByTwo(body[k])
    /\ \A k \in 1..Len(body) : ~IsLoop(body[k]) /\ ~HasCall(body[k])

\* the class the time report gives the only function of the module
TimeOfFunction == DictGet(time_complexity[1].functions, tree.body[1].name, "None")

\* C11: a non-recursive function whose body is one loop that halves a
\* variable on every iteration is O(log n) in the time report, for every way
\* of writing the halving (augmented update, plain assignment, midpoint) and
\* for a for loop as for a while loop.
C11_HalvingLoopIsLogarithmic ==
    (/\ time_complexity # <<>>
     /\ IsSingleLoopFunction(tree)
     /\ HalvingLoopBody(tree.body[1].body[1].body))
    => TimeOfFunction = "O(log n)"

\* the body holds exactly one loop, directly, and halves a variable outside it
HalvingBodyWithOneLoop(body) ==
    /\ Cardinality({ k \in 1..Len(body) : IsLoop(body[k]) }) = 1
    /\ \E k \in 1..Len(body) : HalvesByTwo(body[k])
    /\ \A k \in 1..Len(body) : ~IsLoop(body[k]) => ~HasCall(body[k])

\* the loop of the body
LoopOf(body) == body[CHOOSE k \in 1..Len(body) : IsLoop(body[k])]

\* a loop that halves nothing and whose body holds neither a loop nor a call
LinearLoop(loop) ==
    \A k \in 1..Len(loop.body) :
        ~IsLoop(loop.body[k]) /\ ~HasCall(loop.body[k]) /\ ~Halves(loop.body[k])

\* C12: a non-recursive function whose body is a halving loop that holds,
\* directly in its body, one linear loop with an O(1) body is O(n log n) in
\* the time report.
C12_LinearInsideHalving ==
    (/\ time_complexity # <<>>
     /\ IsSingleLoopFunction(tree)
     /\ HalvingBodyWithOneLoop(tree.body[1].body[1].body)
     /\ LinearLoop(LoopOf(tree.body[1].body[1].body)))
    => TimeOfFunction = "O(n log n)"

\* C13: a non-recursive function whose body is a for loop over a collection
\* whose body is a halving loop is O(n log n) in the time report.
C13_HalvingInsideLinear ==
    (/\ time_complexity # <<>>
     /\ IsSingleLoopFunction(tree)
     /\ tree.body[1].body[1].type = "For"
     /\ Len(tree.body[1].body[1].body) = 1
     /\ IsLoop(tree.body[1].body[1].body[1])
     /\ HalvingLoopBody(tree.body[1].body[1].body[1].body))
    => TimeOfFunction = "O(n log n)"

\* the number of calls in func, nested statements included, whose callee is
\* the bare name of func
SelfCalls(func) ==
    Cardinality({ k \in 1..Len(walk(func)) :
        /\ walk(func)[k].type = "Call"
        /\ walk(func)[k].func.type = "Name"
        /\ walk(func)[k].func.id = func.name })

\* func takes a slice somewhere
HasSlice(func) ==
    \E k \in 1..Len(walk(func)) :
        walk(func)[k].type = "Subscript" /\ walk(func)[k].slice.type = "Slice"

\* func assigns the floor of a half somewhere (mid = n // 2)
AssignsHalf(func) ==
    \E k \in 1..Len(walk(func)) :
        /\ walk(func)[k].type = "Assign"
        /\ walk(func)[k].value.type = "BinOp"
        /\ walk(func)[k].value.op = "FloorDiv"
        /\ walk(func)[k].value.right = Constant(2)

Divides(func) == HasSlice(func) \/ AssignsHalf(func)

\* the top-level functions of the module that call themselves by name and
\* whose name no later top-level function takes
SelfCallingFunctions(module) ==
    { k \in 1..Len(module.body) :
        /\ module.body[k].type = "FunctionDef"
        /\ SelfCalls(module.body[k]) >= 1
        /\ \A j \in (k + 1)..Len(module.body) :
               module.body[j].type = "FunctionDef"
                   => module.body[j].name # module.body[k].name }

\* the recursion table for time
TimeTable(c, divides, has_slice, class) ==
    /\ c = 1 => class = "O(n)"
    /\ (c = 2 /\ divides /\ has_slice) => class = "O(n log n)"
    /\ (c = 2 /\ divides /\ ~has_slice) => class = "O(log n)"
    /\ (c = 2 /\ ~divides /\ ~has_slice) => class = "O(n^2)"
    /\ c >= 3 => class = "O(n^3+)"

TimeOf(func) == DictGet(time_complexity[1].functions, func.name, "None")

\* C14: the time class of a function that calls itself by name is fixed by
\* the number c of self-calls and the facts divides and has_slice: c = 1
\* gives O(n); c = 2 gives O(n log n) with both facts, O(log n) with divides
\* alone, O(n^2) with neither; c >= 3 gives O(n^3+); the loops and the other
\* calls of the body change nothing.
C14_RecursiveTimeTable ==
    time_complexity # <<>> =>
        \A k \in SelfCallingFunctions(tree) :
            TimeTable(SelfCalls(tree.body[k]), Divides(tree.body[k]),
                HasSlice(tree.body[k]), TimeOf(tree.body[k]))

\* two self-calls, one of them on a slice, next to a loop nested in a loop
C14_Witness ==
    /\ time_complexity # <<>>
    /\ tree \in RecursiveModules
    /\ SelfCalls(tree.body[1]) = 2
    /\ HasSlice(tree.body[1])
    /\ \E k \in 1..Len(tree.body[1].body) :
           /\ IsLoop(tree.body[1].body[k])
           /\ IsLoop(tree.body[1].body[k].body[1])
    /\ TimeOf(tree.body[1]) = "O(n log n)"

\* func holds a list, dict or set literal or comprehension somewhere
CreatesContainer(func) ==
    \E k \in 1..Len(walk(func)) :
        walk(func)[k].type \in {"List", "Dict", "Set", "ListComp", "DictComp", "SetComp"}

\* the recursion table for space
SpaceTable(c, creates, divides, has_slice, class) ==
    /\ (creates /\ divides /\ has_slice) => class = "O(n)"
    /\ (creates /\ ~(divides /\ has_slice)) => class = "O(n^2)"
    /\ (~creates /\ divides) => class = "O(log n)"
    /\ (~creates /\ ~divides /\ c = 1) => class = "O(n)"
    /\ (~creates /\ ~divides /\ c # 1) => class = "O(n^2)"

SpaceOf(func) == DictGet(space_complexity[1].functions, func.name, "None")

IsSingleAssignFunction(module) ==
    /\ Len(module.body) = 1
    /\ module.body[1].type = "FunctionDef"
    /\ Len(module.body[1].body) = 1
    /\ module.body[1].body[1].type = "Assign"
    /\ \A k \in 1..Len(module.body[1].body[1].targets) :
           module.body[1].body[1].targets[k].type = "Name"
    /\ SelfCalls(module.body[1]) = 0

AssignedValue(module) == module.body[1].body[1].value

NonEmptyLiteral(value) ==
    \/ value.type \in {"List", "Set"} /\ Len(value.elts) > 0
    \/ value.type = "Dict" /\ Len(value.keys) > 0

EmptyLiteral(value) ==
    \/ value.type = "List" /\ Len(value.elts) = 0
    \/ value.type = "Dict" /\ Len(value.keys) = 0

Comprehension(value) == value.type \in {"ListComp", "DictComp", "SetComp"}

IsBulkUpdate(stmt) ==
    /\ stmt.type \in {"Expr", "Assign"}
    /\ stmt.value.type = "Call"
    /\ stmt.value.func.type = "Attribute"
    /\ stmt.value.func.attr \in {"extend", "update"}
    /\ \A k \in 1..Len(stmt.value.args) : ~HasCall(stmt.value.args[k])
    /\ ~HasCall(stmt.value.func.value)

\* the module is one non-recursive function whose statements are bulk updates
\* and pass, with one bulk update at least
OnlyBulkUpdates(module) ==
    /\ Len(module.body) = 1
    /\ module.body[1].type = "FunctionDef"
    /\ SelfCalls(module.body[1]) = 0
    /\ \A k \in 1..Len(module.body[1].body) :
           module.body[1].body[k].type = "Pass" \/ IsBulkUpdate(module.body[1].body[k])
    /\ \E k \in 1..Len(module.body[1].body) : IsBulkUpdate(module.body[1].body[k])

\* C17: a non-recursive function whose only costly statement is a call to
\* the method extend or update, of table cost O(k), is O(n) in the time report.
C17_BulkUpdateIsLinear ==
    (time_complexity # <<>> /\ OnlyBulkUpdates(tree)) => TimeOfFunction = "O(n)"

(***************************************************************************)
(* Properties of the text passes.                                          *)
(***************************************************************************)

\* the running loop-depth counter after the first k lines: a line with a
\* loop keyword raises it, any other line ending with a closing brace lowers
\* it unless it is zero
RECURSIVE CounterAfter(_, _)
CounterAfter(lines, k) ==
    IF k = 0 THEN 0
    ELSE IF lines[k].loop THEN CounterAfter(lines, k - 1) + 1
    ELSE IF lines[k].closes /\ CounterAfter(lines, k - 1) > 0
    THEN CounterAfter(lines, k - 1) - 1
    ELSE CounterAfter(lines, k - 1)

\* the maximum the counter reaches during the scan
MaxCounter(lines) ==
    CHOOSE m \in 0..Len(lines) :
        /\ \E k \in 0..Len(lines) : CounterAfter(lines, k) = m
        /\ \A k \in 0..Len(lines) : CounterAfter(lines, k) <= m

DepthClass(m) ==
    CASE m = 0 -> "O(1)" [] m = 1 -> "O(n)" [] m = 2 -> "O(n^2)" [] OTHER -> "O(n^3+)"

\* C18: the counter of the time scan is never negative, the report has
\* estimated = true and, in a text without a call to sort, its class is the
\* one of the maximum M the counter reaches: O(1) for 0, O(n) for 1, O(n^2)
\* for 2, O(n^3+) for 3 and more.
C18_TextTimeFromMaxDepth ==
    /\ scan.current_depth >= 0
    /\ scan.pc = "time" => scan.current_depth = CounterAfter(scan.code.lines, scan.i - 1)
    /\ scan.time # <<>> =>
          /\ scan.time[1].estimated = TRUE
          /\ ~scan.code.facts.sort_call =>
                 scan.time[1].overall = DepthClass(MaxCounter(scan.code.lines))

\* a closing brace at depth zero, then a loop in a loop: O(n^2)
C18_Witness ==
    /\ scan.time # <<>>
    /\ ~scan.code.facts.sort_call
    /\ Len(scan.code.lines) = 3
    /\ scan.code.lines[1].closes /\ ~scan.code.lines[1].loop
    /\ MaxCounter(scan.code.lines) = 2
    /\ scan.time[1].overall = "O(n^2)"

\* C19: in a text with a call to sort the class of the time report is
\* O(n log n) when the class of the maximum depth is lower than O(n log n),
\* and the class of the maximum depth otherwise.
C19_SortIsAtLeastLinearithmic ==
    (scan.time # <<>> /\ scan.code.facts.sort_call) =>
        scan.time[1].overall =
            NotLowerOf(DepthClass(MaxCounter(scan.code.lines)), "O(n log n)")

\* the loops open after the first k lines of a text in which braces belong
\* to loops: a loop header that does not close its block on its line opens
\* one, a closing brace on a line without a loop header closes one
OpenLoops(lines, k) ==
    Cardinality({ j \in 1..k : lines[j].loop /\ ~lines[j].closes })
        - Cardinality({ j \in 1..k : ~lines[j].loop /\ lines[j].closes })

\* every closing brace closes a loop opened before it
Balanced(lines) == \A k \in 0..Len(lines) : OpenLoops(lines, k) >= 0

\* the number of loops the allocation of line k lies in: the loops open
\* before the line and the loop of the line itself
AllocationDepth(lines, k) == OpenLoops(lines, k - 1) + (IF lines[k].loop THEN 1 ELSE 0)

\* C20: at the end of the space scan the class is at least O(n) when some
\* allocation lies in exactly one loop and O(n^2) when some allocation lies
\* in two or more nested loops, on whatever line of the loop body the
\* allocation is written.
C20_AllocationInLoopRaisesSpace ==
    (scan.space # <<>> /\ Balanced(scan.code.lines)) =>
        \A k \in 1..Len(scan.code.lines) :
            scan.code.lines[k].alloc =>
                /\ AllocationDepth(scan.code.lines, k) = 1 =>
                       Rank(scan.space[1].overall) >= Rank("O(n)")
                /\ AllocationDepth(scan.code.lines, k) >= 2 =>
                       scan.space[1].overall = "O(n^2)"

(***************************************************************************)
(* Further properties of the tree-based passes.                            *)
(***************************************************************************)

\* the module is one non-recursive function whose body is one statement
IsSingleStatementFunction(module) ==
    /\ Len(module.body) = 1
    /\ module.body[1].type = "FunctionDef"
    /\ Len(module.body[1].body) = 1
    /\ SelfCalls(module.body[1]) = 0

\* the statement returns a comprehension or assigns one to variables
BuildsComprehension(stmt) ==
    \/ stmt.type = "Return" /\ Comprehension(stmt.value)
    \/ /\ stmt.type = "Assign"
       /\ Comprehension(stmt.value)
       /\ \A k \in 1..Len(stmt.targets) : stmt.targets[k].type = "Name"

\* C21: a non-recursive function that builds a list, dict or set
\* comprehension over its input is at least O(n) in the space report, whether
\* the comprehension is assigned to a variable or returned directly.
C21_ComprehensionIsLinearSpace ==
    (/\ space_complexity # <<>>
     /\ IsSingleStatementFunction(tree)
     /\ BuildsComprehension(tree.body[1].body[1]))
    => Rank(SpaceOf(tree.body[1])) >= Rank("O(n)")

\* stmt is a loop whose body is one such loop, or holds no loop at all
RECURSIVE IsNest(_)
IsNest(stmt) ==
    /\ IsLoop(stmt)
    /\ \/ \A k \in 1..Len(stmt.body) : ~IsLoop(stmt.body[k])
       \/ Len(stmt.body) = 1 /\ IsNest(stmt.body[1])

\* the number of loops of a nest
RECURSIVE NestDepth(_)
NestDepth(stmt) ==
    IF Len(stmt.body) = 1 /\ IsLoop(stmt.body[1])
    THEN 1 + NestDepth(stmt.body[1])
    ELSE 1

\* no call in stmt has a cost above O(1) in the call-cost table
OnlyCheapCalls(stmt) ==
    \A k \in 1..Len(walk(stmt)) :
        walk(stmt)[k].type = "Call" => analyze_call_complexity(walk(stmt)[k]) = "O(1)"

\* a nest the detector does not flag and that holds no costly call
PlainNest(stmt) == IsNest(stmt) /\ ~is_logarithmic_loop(stmt) /\ OnlyCheapCalls(stmt)

NestClass(d) ==
    CASE d = 1 -> "O(n)" [] d = 2 -> "O(n^2)" [] d = 3 -> "O(n^3)" [] OTHER -> "O(n^3+)"

\* the module is one non-recursive function whose statements are plain nests
OnlyPlainNests(module) ==
    /\ Len(module.body) = 1
    /\ module.body[1].type = "FunctionDef"
    /\ SelfCalls(module.body[1]) = 0
    /\ Len(module.body[1].body) >= 1
    /\ \A k \in 1..Len(module.body[1].body) : PlainNest(module.body[1].body[k])

\* the depth of the deepest nest of the function
DeepestNest(func) ==
    CHOOSE d \in 1..(MaxNest + 1) :
        /\ \E k \in 1..Len(func.body) : NestDepth(func.body[k]) = d
        /\ \A k \in 1..Len(func.body) : NestDepth(func.body[k]) <= d

\* C22: a non-recursive function whose body is d loops nested one inside the
\* other, none flagged by the logarithmic-loop detector and none holding a
\* call that costs more than O(1), is O(n) for d = 1, O(n^2) for d = 2,
\* O(n^3) for d = 3 and O(n^3+) for d >= 4; nests written one after the other
\* give the class of the deepest.
C22_NestDepthGivesClass ==
    (time_complexity # <<>> /\ OnlyPlainNests(tree)) =>
        TimeOfFunction = NestClass(DeepestNest(tree.body[1]))

\* three loops, then two loops: O(n^3)
C22_Witness ==
    /\ time_complexity # <<>>
    /\ OnlyPlainNests(tree)
    /\ Len(tree.body[1].body) = 2
    /\ NestDepth(tree.body[1].body[1]) = 3
    /\ NestDepth(tree.body[1].body[2]) = 2
    /\ TimeOfFunction = "O(n^3)"

\* the statements in the body of the innermost loop of a nest
RECURSIVE InnermostBody(_)
InnermostBody(stmt) ==
    IF Len(stmt.body) = 1 /\ IsLoop(stmt.body[1])
    THEN InnermostBody(stmt.body[1])
    ELSE stmt.body

\* the module is one non-recursive function whose body is a nest of loops
\* around one assignment of a non-empty literal to a variable
AssignsLiteralInLoops(module) ==
    /\ IsSingleStatementFunction(module)
    /\ IsNest(module.body[1].body[1])
    /\ Len(InnermostBody(module.body[1].body[1])) = 1
    /\ InnermostBody(module.body[1].body[1])[1].type = "Assign"
    /\ \A k \in 1..Len(InnermostBody(module.body[1].body[1])[1].targets) :
           InnermostBody(module.body[1].body[1])[1].targets[k].type = "Name"
    /\ NonEmptyLiteral(InnermostBody(module.body[1].body[1])[1].value)

\* C23: an assignment inside one loop or more of a value that costs O(1)
\* outside a loop, such as a non-empty literal, costs more than O(1) in the
\* space report.
C23_ConstantValueInLoopEscalates ==
    (space_complexity # <<>> /\ AssignsLiteralInLoops(tree))
        => Rank(SpaceOf(tree.body[1])) > Rank("O(1)")

\* a call statement of append, extend, add, update or insert on some object
Accumulates(stmt) ==
    /\ stmt.type = "Expr"
    /\ stmt.value.type = "Call"
    /\ stmt.value.func.type = "Attribute"
    /\ stmt.value.func.attr \in {"append", "extend", "add", "update", "insert"}

\* no statement of the function allocates: no assignment, no literal, no
\* comprehension, no call of a plain name
NoAllocation(func) ==
    \A k \in 1..Len(walk(func)) :
        /\ walk(func)[k].type \notin
               {"Assign", "List", "Dict", "Set", "ListComp", "DictComp", "SetComp"}
        /\ walk(func)[k].type = "Call" => walk(func)[k].func.type = "Attribute"

\* the module is one non-recursive function whose body is a nest of loops
\* the innermost of which accumulates
AccumulatesInLoops(module) ==
    /\ IsSingleStatementFunction(module)
    /\ IsNest(module.body[1].body[1])
    /\ \E k \in 1..Len(InnermostBody(module.body[1].body[1])) :
           Accumulates(InnermostBody(module.body[1].body[1])[k])

\* C24: a non-recursive function with a loop at nesting depth d whose body
\* calls append, extend, add, update or insert is at least the depth class of
\* d in the space report (O(n), O(n^2), O(n^3), then O(n^3+)), allocation or
\* not.
C24_AccumulationGivesDepthClass ==
    (space_complexity # <<>> /\ AccumulatesInLoops(tree)) =>
        Rank(SpaceOf(tree.body[1])) >= Rank(NestClass(NestDepth(tree.body[1].body[1])))

\* r.extend(x) under three loops and nothing that allocates: O(n^3)
C24_Witness ==
    /\ space_complexity # <<>>
    /\ AccumulatesInLoops(tree)
    /\ NoAllocation(tree.body[1])
    /\ NestDepth(tree.body[1].body[1]) = 3
    /\ InnermostBody(tree.body[1].body[1])[1].value.func.attr = "extend"
    /\ SpaceOf(tree.body[1]) = "O(n^3)"

\* the class the time pass computes for a function definition
TimeOnItsOwn(func) ==
    IF is_recursive_function(func)
    THEN analyze_recursive_complexity(func)
    ELSE analyze_function_complexity(func)

\* the class the space pass computes for a function definition
SpaceOnItsOwn(func) ==
    IF is_recursive_function(func)
    THEN analyze_recursive_space(func)
    ELSE analyze_function_space_complexity(func)

\* C25: in both reports 'overall' is at least the class the pass computes
\* for every function definition of the file taken on its own, also when two
\* definitions share a name and the 'functions' map keeps one of them.
C25_OverallCoversEveryDefinition ==
    \A k \in 1..Len(tree.body) :
        tree.body[k].type = "FunctionDef" =>
            /\ time_complexity # <<>> =>
                   Rank(time_complexity[1].overall) >= Rank(TimeOnItsOwn(tree.body[k]))
            /\ space_complexity # <<>> =>
                   Rank(space_complexity[1].overall) >= Rank(SpaceOnItsOwn(tree.body[k]))

\* the module of one single-loop function with stmt added at the end of the
\* body of its loop
WithStatementInLoop(module, stmt) ==
    [module EXCEPT !.body[1].body[1].body = Append(@, stmt)]

\* the statements added: pass, i += 1, i = i + 1, x = x * y, r.append(x)
AddedStatements == {Pass, Increment, IncrementAssign, Multiply, AppendCall}

\* the class the time pass reports for the first function of a module
TimeClassOfFirst(module) ==
    DictGet(calculate_time_complexity(module).functions, module.body[1].name, "None")

\* C26: adding one statement to the body of a loop of a non-recursive
\* function never lowers the class the time pass reports for the function.
C26_AddingAStatementNeverLowers ==
    (time_complexity # <<>> /\ IsSingleLoopFunction(tree)) =>
        \A stmt \in AddedStatements :
            Rank(TimeClassOfFirst(WithStatementInLoop(tree, stmt))) >= Rank(TimeOfFunction)

\* the loops the time pass scores in a module, with the depth carried to
\* each: those of the module-level scoring and those of the scoring of every
\* non-recursive function
AllScoredLoops(module) ==
    scored_loops(module.body, 0)
        \cup UNION { scored_loops(walk(module)[k].body, 0) :
                       k \in { j \in 1..Len(walk(module)) :
                                 /\ walk(module)[j].type = "FunctionDef"
                                 /\ ~is_recursive_function(walk(module)[j]) } }

\* C27: whenever the time pass scores a loop that the logarithmic-loop
\* detector flags, the depth it carries at that point is 0: the loops around
\* a flagged loop are flagged themselves.
C27_FlaggedLoopIsScoredAtDepthZero ==
    time_complexity # <<>> =>
        \A p \in AllScoredLoops(tree) : is_logarithmic_loop(p[1]) => p[2] = 0

\* a flagged loop directly inside another loop, both scored
C27_Witness ==
    /\ time_complexity # <<>>
    /\ \E p, q \in AllScoredLoops(tree) :
           /\ is_logarithmic_loop(p[1])
           /\ \E k \in 1..Len(q[1].body) : q[1].body[k] = p[1]
           /\ p[2] = 0

\* the largest number of loops open after some line of the text
DeepestOpenLoops(lines) ==
    CHOOSE m \in 0..(Len(lines) + 1) :
        /\ \E k \in 1..Len(lines) :
               OpenLoops(lines, k - 1) + (IF lines[k].loop THEN 1 ELSE 0) = m
        /\ \A k \in 1..Len(lines) :
               OpenLoops(lines, k - 1) + (IF lines[k].loop THEN 1 ELSE 0) <= m

\* C28: in a brace-balanced text the counter of the time scan after each
\* line is the number of loops open there, and the class of the report is
\* the one of the deepest nesting: two loops written one after the other are
\* O(n) like one loop, also when each is written on one line with its braces.
C28_CounterIsLoopNesting ==
    Balanced(scan.code.lines) =>
        /\ scan.pc = "time" =>
               scan.current_depth = OpenLoops(scan.code.lines, scan.i - 1)
        /\ (scan.time # <<>> /\ ~scan.code.facts.sort_call /\ Len(scan.code.lines) > 0) =>
               scan.time[1].overall = DepthClass(DeepestOpenLoops(scan.code.lines))

\* C29: in the time report the class of a non-recursive function is at
\* least the call-cost-table class of every call expression in its body, a
\* call written as an argument of another call or in the condition of an if
\* statement included.
C29_EveryCallCounts ==
    (/\ time_complexity # <<>>
     /\ Len(tree.body) = 1
     /\ tree.body[1].type = "FunctionDef"
     /\ SelfCalls(tree.body[1]) = 0)
    => \A k \in 1..Len(walk(tree.body[1])) :
           (/\ walk(tree.body[1])[k].type = "Call"
            /\ analyze_call_complexity(walk(tree.body[1])[k]) \in Classes)
           => Rank(TimeOfFunction) >= Rank(analyze_call_complexity(walk(tree.body[1])[k]))

\* C30: every class a report can hold is a key of the three mappings that
\* read reports, and each mapping follows the fixed order: of the time class
\* and the space class of one result, the one that is not above the other
\* has a penalty, a score and a chart value that are not above the other's.
Known(mapping, metrics) ==
    /\ DictHas(mapping, metrics.time_complexity)
    /\ DictHas(mapping, metrics.space_complexity)

NotAbove(metrics) == Rank(metrics.time_complexity) <= Rank(metrics.space_complexity)

NotBelow(metrics) == Rank(metrics.time_complexity) >= Rank(metrics.space_complexity)

C30_MappingsFollowTheOrder ==
    /\ scores.quality_score # <<>> =>
        /\ Known(complexity_penalties, scores.metrics)
        /\ NotAbove(scores.metrics) =>
               penalty_of(scores.metrics.time_complexity)
                   <= penalty_of(scores.metrics.space_complexity)
        /\ NotBelow(scores.metrics) =>
               penalty_of(scores.metrics.time_complexity)
                   >= penalty_of(scores.metrics.space_complexity)
    /\ scores.complexity_score # <<>> =>
        /\ Known(complexity_scores, scores.metrics)
        /\ NotAbove(scores.metrics) =>
               score_of(scores.metrics.time_complexity)
                   <= score_of(scores.metrics.space_complexity)
        /\ NotBelow(scores.metrics) =>
               score_of(scores.metrics.time_complexity)
                   >= score_of(scores.metrics.space_complexity)
    /\ scores.numeric # <<>> =>
        /\ Known(numeric_mapping, scores.metrics)
        /\ NotAbove(scores.metrics) =>
               scores.numeric[1].time <= scores.numeric[1].space
        /\ NotBelow(scores.metrics) =>
               scores.numeric[1].time >= scores.numeric[1].space

====
